---------------------------- MODULE Spec2Model ----------------------------
(***************************************************************************)
(* A model of ExoNAMD's parameter-resolution engine:                       *)
(*   - the physical relation solver (src/exonamd/solve.py, solve_a_rs,     *)
(*     solve_rprs, solve_a_period, solve_values),                          *)
(*   - the interpolation pipeline interp_db (src/exonamd/run.py) with the  *)
(*     interp_* functions (src/exonamd/interp.py) and solve_relincl,       *)
(*   - the Monte Carlo masking of solve_amd_mc and compute_namd_mcmc.      *)
(*                                                                         *)
(* Numbers.  A missing value (NaN) is the empty tuple.  A triad member of  *)
(* the solver is a positive real kept exactly as a monomial <<n,p,q,r>>,   *)
(* standing for 2^(n/6) * Cars^(p/6) * Crp^(q/6) * Ck^(r/6), where Cars is *)
(* R_sun in AU, Crp is R_sun in R_earth and Ck is two_pi_G in              *)
(* day / sqrt(AU^3 / M_sun): products, quotients and the rational powers   *)
(* of the three relations are exact on it, so the model does real          *)
(* arithmetic, without the rounding of the floats.  A table entry of the   *)
(* interpolation pipeline is a 1-tuple <<n>> holding an integer count of   *)
(* the column's unit.                                                      *)
(***************************************************************************)
EXTENDS Integers, Sequences, FiniteSets, TLC

VARIABLES
  pc,      \* the place in the operation being run
  row,     \* solve_values: the row's seven members; solve_amd_mc: the row
  input,   \* solve_values: the row as given
  order,   \* solve_values: solve_order
  idx,     \* solve_values: the position in solve_order; compute_namd_mcmc: in user_df
  calls,   \* solve_values: the solver calls made, with arguments and results
  tbl,     \* interp_db, compute_namd_mcmc: the table df, rows in index order
  prev,    \* interp_db: df as it was before the last stage
  last,    \* interp_db: the last stage run
  args,    \* Monte Carlo: the arguments of the call other than row and df
  samples, \* Monte Carlo: the sample arrays drawn, with their mask
  out,     \* Monte Carlo: the value returned
  rng      \* Monte Carlo: the state of numpy's global random generator

\* the state of the Monte Carlo engine
mc == <<args, samples, out, rng>>

vars == <<pc, row, input, order, idx, calls, tbl, prev, last, mc>>

\* the generator as earlier code left it: key is <<>> until a seed is set
\* and <<seed>> after, pos counts the variates taken since, tape holds the
\* arrays the generator yielded at each <<key, pos>>, log what the running
\* call took them for
Unseeded == [key |-> <<>>, pos |-> 0, tape |-> <<>>, log |-> <<>>]

-----------------------------------------------------------------------------
(* Bounds of the model *)

\* solver inputs are NaN or 2^k for k in 0..MaxExp
MaxExp == 1

\* the planets of the host under study
NPlanets == 3

-----------------------------------------------------------------------------
(* Numbers *)

NaN == <<>>

isnan(x) == x = NaN

\* the exact monomial 2^k
Pow2(k) == <<6 * k, 0, 0, 0>>

\* the unit conversion factors of the three relations
Cars == <<0, 6, 0, 0>>
Crp == <<0, 0, 6, 0>>
Ck == <<0, 0, 0, 6>>

\* a product that skips a missing factor, as np.nanprod does
MulSkipNaN(x, y) ==
  IF isnan(x) THEN y ELSE IF isnan(y) THEN x ELSE [i \in 1..4 |-> x[i] + y[i]]

\* float product and quotient: NaN propagates
Mul(x, y) == IF isnan(x) \/ isnan(y) THEN NaN ELSE [i \in 1..4 |-> x[i] + y[i]]

Div(x, y) == IF isnan(x) \/ isnan(y) THEN NaN ELSE [i \in 1..4 |-> x[i] - y[i]]

\* x ** (num / den), NaN propagates
PowQ(x, num, den) == IF isnan(x) THEN NaN ELSE [i \in 1..4 |-> (x[i] * num) \div den]

\* whether x ** (num / den) is a monomial of the representation (no remainder)
PowExact(x, num, den) == isnan(x) \/ \A i \in 1..4 : (x[i] * num) % den = 0

-----------------------------------------------------------------------------
(* The three triad solvers.  np.isnan(.) is a numpy bool, and the sum of   *)
(* numpy bools is their logical or: `missing` is True when any member is   *)
(* missing, and True != 1 is False.                                        *)

\* np.isnan(a) + np.isnan(b) + np.isnan(c)
MissingSum(a, b, c) == isnan(a) \/ isnan(b) \/ isnan(c)

\* missing != 1, with True == 1 and False == 0
NotOne(missing) == ~missing

\* solve_a_rs without the conversion of R_sun to AU where sma is filled
solve_a_rs_NoUnits(sma, rstar, ars) ==
  IF NotOne(MissingSum(sma, ars, rstar)) THEN <<sma, rstar, ars>>
  ELSE IF isnan(sma) THEN <<Mul(ars, rstar), rstar, ars>>
  ELSE IF isnan(rstar) THEN <<sma, Div(Div(sma, ars), Cars), ars>>
  ELSE IF isnan(ars) THEN <<sma, rstar, Div(sma, Mul(rstar, Cars))>>
  ELSE <<sma, rstar, ars>>

solve_a_rs(sma, rstar, ars) ==
  IF NotOne(MissingSum(sma, ars, rstar)) THEN <<sma, rstar, ars>>
  ELSE IF isnan(sma) THEN <<Mul(Mul(ars, rstar), Cars), rstar, ars>>
  ELSE IF isnan(rstar) THEN <<sma, Div(Div(sma, ars), Cars), ars>>
  ELSE IF isnan(ars) THEN <<sma, rstar, Div(sma, Mul(rstar, Cars))>>
  ELSE <<sma, rstar, ars>>

solve_rprs(rplanet, rstar, rprs) ==
  IF NotOne(MissingSum(rplanet, rstar, rprs)) THEN <<rplanet, rstar, rprs>>
  ELSE IF isnan(rplanet) THEN <<Mul(Mul(rprs, rstar), Crp), rstar, rprs>>
  ELSE IF isnan(rstar) THEN <<rplanet, Div(Div(rplanet, rprs), Crp), rprs>>
  ELSE IF isnan(rprs) THEN <<rplanet, rstar, Div(rplanet, Mul(rstar, Crp))>>
  ELSE <<rplanet, rstar, rprs>>

solve_a_period(period, sma, mstar) ==
  IF NotOne(MissingSum(period, sma, mstar)) THEN <<period, sma, mstar>>
  ELSE IF isnan(mstar)
    THEN <<period, sma, Div(PowQ(sma, 3, 1), PowQ(Div(period, Ck), 2, 1))>>
  ELSE IF isnan(period)
    THEN <<Mul(PowQ(Div(PowQ(sma, 3, 1), mstar), 1, 2), Ck), sma, mstar>>
  ELSE IF isnan(sma)
    THEN <<period, PowQ(Mul(PowQ(Div(period, Ck), 2, 1), mstar), 1, 3), mstar>>
  ELSE <<period, sma, mstar>>

-----------------------------------------------------------------------------
(* solve_values: rank the triads, then solve them in that order *)

Fields == {"sma", "ars", "rstar", "rplanet", "rprs", "period", "mstar"}

\* the members of triad i (0: sma-rstar, 1: rplanet-rstar, 2: period-sma-mstar),
\* in the order of the solver's parameters
Members(i) ==
  IF i = 0 THEN <<"sma", "rstar", "ars">>
  ELSE IF i = 1 THEN <<"rplanet", "rstar", "rprs">>
  ELSE <<"period", "sma", "mstar">>

\* a_rs_, rprs_, a_period_: the rank keys, numpy bools
RankKey(r, i) == MissingSum(r[Members(i)[1]], r[Members(i)[2]], r[Members(i)[3]])

\* False < True
KeyNum(b) == IF b THEN 1 ELSE 0

\* np.argsort of three keys: ascending, equal keys in index order
ArgSort3(k) ==
  LET Before(i, j) == KeyNum(k[i + 1]) < KeyNum(k[j + 1])
                        \/ (KeyNum(k[i + 1]) = KeyNum(k[j + 1]) /\ i < j)
      Rank(i) == Cardinality({j \in 0..2 : Before(j, i)})
  IN [p \in 1..3 |-> CHOOSE i \in 0..2 : Rank(i) = p - 1]

SolveOrder(r) == ArgSort3(<<RankKey(r, 0), RankKey(r, 1), RankKey(r, 2)>>)

\* the solver of triad i applied to the row's members
SolveTriad(r, i) ==
  LET m == Members(i)
      a == r[m[1]]
      b == r[m[2]]
      c == r[m[3]]
  IN IF i = 0 THEN solve_a_rs(a, b, c)
     ELSE IF i = 1 THEN solve_rprs(a, b, c)
     ELSE solve_a_period(a, b, c)

\* sma, rstar, ars = solution (and the like)
Assign(r, i, sol) ==
  LET m == Members(i)
  IN [f \in Fields |-> IF f = m[1] THEN sol[1]
                       ELSE IF f = m[2] THEN sol[2]
                       ELSE IF f = m[3] THEN sol[3]
                       ELSE r[f]]

SolverValues == {NaN} \cup {Pow2(k) : k \in 0..MaxExp}

InitSolve ==
  /\ pc = "solve_rank"
  /\ row \in [Fields -> SolverValues]
  /\ input = row
  /\ order = <<>>
  /\ idx = 0
  /\ calls = <<>>
  /\ tbl = <<>>
  /\ prev = <<>>
  /\ last = "none"
  /\ args = <<>>
  /\ samples = <<>>
  /\ out = <<>>
  /\ rng = Unseeded

\* lines 123-126
SolveRank ==
  /\ pc = "solve_rank"
  /\ order' = SolveOrder(row)
  /\ idx' = 1
  /\ pc' = "solve_loop"
  /\ UNCHANGED <<row, input, calls, tbl, prev, last, mc>>

\* one iteration of the loop of line 127, for the triad i
SolveIter(i) ==
  /\ pc = "solve_loop"
  /\ idx <= 3
  /\ order[idx] = i
  /\ LET m == Members(i)
         before == <<row[m[1]], row[m[2]], row[m[3]]>>
         sol == SolveTriad(row, i)
     IN /\ row' = Assign(row, i, sol)
        /\ calls' = Append(calls, [triad |-> i, before |-> before, after |-> sol])
  /\ idx' = idx + 1
  /\ UNCHANGED <<input, order, pc, tbl, prev, last, mc>>

SolveARs == SolveIter(0)

SolveRprs == SolveIter(1)

SolveAPeriod == SolveIter(2)

\* line 141
SolveReturn ==
  /\ pc = "solve_loop"
  /\ idx = 4
  /\ pc' = "solve_done"
  /\ UNCHANGED <<row, input, order, idx, calls, tbl, prev, last, mc>>

NextSolve == SolveRank \/ SolveARs \/ SolveRprs \/ SolveAPeriod \/ SolveReturn

SpecSolve == InitSolve /\ [][NextSolve]_vars

-----------------------------------------------------------------------------
(* Table entries of the interpolation pipeline: NaN or <<n>>, n counting   *)
(* the column's unit (1e-4 for eccentricities, 0.1 R_earth for radii,      *)
(* degrees for angles).                                                    *)

Num(n) == <<n>>

Val(x) == x[1]

Zero == Num(0)

\* x if not np.isnan(x) else 0.0
ZeroIfNaN(x) == IF isnan(x) THEN Zero ELSE x

\* 0.63 * N ** (-1.02) in units of 1e-4, rounded; NaN for a NaN count
EccPrior(pnum) ==
  IF isnan(pnum) THEN NaN
  ELSE Num(<<6300, 3107, 2054, 1532, 1220, 1013>>[Val(pnum)])

\* min_radius and max_radius of interp_mass, in 0.1 R_earth
MinRadius == 5

MaxRadius == 60

\* the 16th, 50th and 84th percentiles of the masses the mass-radius
\* predictor may return (an external sampler: any of these)
Predictions == {<<18, 20, 24>>, <<30, 30, 30>>}

\* the prediction passed for a row whose mass is not predicted
Unused == <<18, 20, 24>>

\* the integer nearest to sqrt(n)
RoundSqrt(n) ==
  CHOOSE k \in 0..n :
    /\ k = 0 \/ (2 * k - 1) * (2 * k - 1) <= 4 * n
    /\ 4 * n < (2 * k + 1) * (2 * k + 1)

\* np.sqrt(a**2 + b**2), to the unit
Hypot(a, b) ==
  IF isnan(a) \/ isnan(b) THEN NaN ELSE Num(RoundSqrt(Val(a) * Val(a) + Val(b) * Val(b)))

Neg(x) == IF isnan(x) THEN NaN ELSE Num(0 - Val(x))

Sub(x, y) == IF isnan(x) \/ isnan(y) THEN NaN ELSE Num(Val(x) - Val(y))

\* the characters of a stage code
Code(stage, sides) == <<stage>> \o sides

Plus == <<"+">>

Minus == <<"-">>

PlusMinus == <<"+", "-">>

-----------------------------------------------------------------------------
(* interp.py: the row functions.  Each returns the values and the flag it  *)
(* is assigned to, in the order of its pd.Series.                          *)

\* the two `if np.isnan(err)` blocks that close interp_eccentricity,
\* interp_mass and interp_sma, and open interp_inclination and
\* interp_trueobliq
\* zeroing both errors whenever one is missing
ZeroErrorsBoth(err1, err2, flag, stage) ==
  LET f1 == IF isnan(err1) THEN flag \o Code(stage, Plus) ELSE flag
      f2 == IF isnan(err2) THEN f1 \o Code(stage, Minus) ELSE f1
  IN IF isnan(err1) \/ isnan(err2) THEN <<Zero, Zero, f2>> ELSE <<err1, err2, flag>>

ZeroErrors(err1, err2, flag, stage) ==
  LET f1 == IF isnan(err1) THEN flag \o Code(stage, Plus) ELSE flag
      f2 == IF isnan(err2) THEN f1 \o Code(stage, Minus) ELSE f1
  IN <<ZeroIfNaN(err1), ZeroIfNaN(err2), f2>>

\* interp_eccentricity zeroing both errors as soon as one is missing
interp_eccentricity_Joint(r) ==
  LET imputed == isnan(r.pl_orbeccen)
      ecc == IF imputed THEN EccPrior(r.sy_pnum) ELSE r.pl_orbeccen
      eccerr1 == IF imputed THEN Zero ELSE r.pl_orbeccenerr1
      eccerr2 == IF imputed THEN Zero ELSE r.pl_orbeccenerr2
      flag == IF imputed THEN r.flag \o Code("1", PlusMinus) ELSE r.flag
      z == ZeroErrorsBoth(eccerr1, eccerr2, flag, "1")
  IN <<ecc, z[1], z[2], z[3]>>

\* interp.py, lines 10-30
interp_eccentricity(r) ==
  LET imputed == isnan(r.pl_orbeccen)
      ecc == IF imputed THEN EccPrior(r.sy_pnum) ELSE r.pl_orbeccen
      eccerr1 == IF imputed THEN Zero ELSE r.pl_orbeccenerr1
      eccerr2 == IF imputed THEN Zero ELSE r.pl_orbeccenerr2
      flag == IF imputed THEN r.flag \o Code("1", PlusMinus) ELSE r.flag
      z == ZeroErrors(eccerr1, eccerr2, flag, "1")
  IN <<ecc, z[1], z[2], z[3]>>

\* the condition of lines 43-50
MassPredictable(r) ==
  /\ isnan(r.pl_bmasse)
  /\ ~isnan(r.pl_rade)
  /\ Val(r.pl_rade) > MinRadius
  /\ Val(r.pl_rade) < MaxRadius
  /\ ~isnan(r.pl_radeerr1)
  /\ ~isnan(r.pl_radeerr2)

\* q is <<q16, q50, q84>> of the predicted masses
interp_mass(r, q) ==
  LET predicted == MassPredictable(r)
      mass == IF predicted THEN Num(q[2]) ELSE r.pl_bmasse
      masserr1 == IF predicted THEN Num(q[3] - q[2]) ELSE r.pl_bmasseerr1
      masserr2 == IF predicted THEN Num(q[1] - q[2]) ELSE r.pl_bmasseerr2
      flag == IF predicted THEN r.flag \o Code("2", PlusMinus) ELSE r.flag
      z == ZeroErrors(masserr1, masserr2, flag, "2")
  IN <<mass, z[1], z[2], z[3]>>

\* the rows of every host: the selection of the host left out
HostRows_AllRows(df, h) == DOMAIN df

\* the positions of the rows of df with the hostname h
HostRows(df, h) == {p \in DOMAIN df : df[p].hostname = h}

\* Series.idxmin: the mutant of IdxMax
IdxMin(df, S, col) ==
  LET known == {p \in S : ~isnan(df[p][col])}
      low == {p \in known : \A o \in known : Val(df[o][col]) >= Val(df[p][col])}
  IN CHOOSE p \in low : \A o \in low : p <= o

\* Series.idxmax over the rows S: the first row holding the largest value
\* that is not NaN
IdxMax(df, S, col) ==
  LET known == {p \in S : ~isnan(df[p][col])}
      top == {p \in known : \A o \in known : Val(df[o][col]) <= Val(df[p][col])}
  IN CHOOSE p \in top : \A o \in top : p <= o

\* interp_inclination defaulting to 0 degrees
interp_inclination_Default0(r, df) ==
  LET host == HostRows(df, r.hostname)
      mass_max == IdxMax(df, host, "pl_bmasse")
      inclnan == {p \in host : isnan(df[p].pl_orbincl)}
      next_mass_max == IdxMax(df, host \ inclnan, "pl_bmasse")
      from(p) == <<df[p].pl_orbincl, ZeroIfNaN(df[p].pl_orbinclerr1),
                   ZeroIfNaN(df[p].pl_orbinclerr2), r.flag \o Code("3", PlusMinus)>>
  IN IF ~isnan(r.pl_orbincl)
       THEN LET z == ZeroErrors(r.pl_orbinclerr1, r.pl_orbinclerr2, r.flag, "3")
            IN <<r.pl_orbincl, z[1], z[2], z[3]>>
     ELSE IF Cardinality(inclnan) = Cardinality(host)
       THEN <<Zero, Zero, Zero, r.flag \o Code("3", PlusMinus)>>
     ELSE IF mass_max \in inclnan THEN from(next_mass_max)
     ELSE from(mass_max)

interp_inclination(r, df) ==
  LET host == HostRows(df, r.hostname)
      mass_max == IdxMax(df, host, "pl_bmasse")
      inclnan == {p \in host : isnan(df[p].pl_orbincl)}
      next_mass_max == IdxMax(df, host \ inclnan, "pl_bmasse")
      from(p) == <<df[p].pl_orbincl, ZeroIfNaN(df[p].pl_orbinclerr1),
                   ZeroIfNaN(df[p].pl_orbinclerr2), r.flag \o Code("3", PlusMinus)>>
  IN IF ~isnan(r.pl_orbincl)
       THEN LET z == ZeroErrors(r.pl_orbinclerr1, r.pl_orbinclerr2, r.flag, "3")
            IN <<r.pl_orbincl, z[1], z[2], z[3]>>
     ELSE IF Cardinality(inclnan) = Cardinality(host)
       THEN <<Num(90), Zero, Zero, r.flag \o Code("3", PlusMinus)>>
     ELSE IF mass_max \in inclnan THEN from(next_mass_max)
     ELSE from(mass_max)

\* interp_sma assigning the code to flag where it should append it
interp_sma_Assign(r) ==
  ZeroErrors(r.pl_orbsmaxerr1, r.pl_orbsmaxerr2,
             IF isnan(r.pl_orbsmaxerr1) \/ isnan(r.pl_orbsmaxerr2) THEN <<>> ELSE r.flag, "4")

interp_sma(r) == ZeroErrors(r.pl_orbsmaxerr1, r.pl_orbsmaxerr2, r.flag, "4")

solve_relincl(r, df) ==
  LET host == HostRows(df, r.hostname)
      mass_max == IdxMax(df, host, "pl_bmasse")
      m == df[mass_max]
  IN <<Sub(m.pl_orbincl, r.pl_orbincl),
       Hypot(r.pl_orbinclerr1, m.pl_orbinclerr1),
       Neg(Hypot(r.pl_orbinclerr2, m.pl_orbinclerr2))>>

interp_trueobliq(r, df) ==
  LET host == HostRows(df, r.hostname)
      mass_max == IdxMax(df, host, "pl_bmasse")
      obliqnan == {p \in host : isnan(df[p].pl_trueobliq)}
      next_max_mass == IdxMax(df, host \ obliqnan, "pl_bmasse")
      from(p) == <<df[p].pl_trueobliq, ZeroIfNaN(df[p].pl_trueobliqerr1),
                   ZeroIfNaN(df[p].pl_trueobliqerr2), r.flag \o Code("5", PlusMinus)>>
  IN IF ~isnan(r.pl_trueobliq)
       THEN LET z == ZeroErrors(r.pl_trueobliqerr1, r.pl_trueobliqerr2, r.flag, "5")
            IN <<r.pl_trueobliq, z[1], z[2], z[3]>>
     ELSE IF Cardinality(obliqnan) = Cardinality(host)
       THEN <<r.pl_relincl, r.pl_relinclerr1, r.pl_relinclerr2,
              r.flag \o Code("5", PlusMinus)>>
     ELSE IF mass_max \in obliqnan THEN from(next_max_mass)
     ELSE from(mass_max)

-----------------------------------------------------------------------------
(* run.py, interp_db: the stages over the table.  A row is a record of its *)
(* columns and its index label; df.apply(f, axis=1) computes every row's   *)
(* result on the table as it is before the stage, then assigns the columns.*)

Groups == {"ecc", "mass", "rade", "sma", "incl", "obliq"}

\* the columns <<value, err1, err2>> of a quantity
ColsOf(g) ==
  IF g = "ecc" THEN <<"pl_orbeccen", "pl_orbeccenerr1", "pl_orbeccenerr2">>
  ELSE IF g = "mass" THEN <<"pl_bmasse", "pl_bmasseerr1", "pl_bmasseerr2">>
  ELSE IF g = "rade" THEN <<"pl_rade", "pl_radeerr1", "pl_radeerr2">>
  ELSE IF g = "sma" THEN <<"pl_orbsmax", "pl_orbsmaxerr1", "pl_orbsmaxerr2">>
  ELSE IF g = "incl" THEN <<"pl_orbincl", "pl_orbinclerr1", "pl_orbinclerr2">>
  ELSE IF g = "obliq" THEN <<"pl_trueobliq", "pl_trueobliqerr1", "pl_trueobliqerr2">>
  ELSE <<"pl_relincl", "pl_relinclerr1", "pl_relinclerr2">>

\* df.columns.difference(["hostname", "pl_name", "default_flag", "rowupdate"])
MedianCols(r) == DOMAIN r \ {"index", "hostname", "pl_name", "default_flag"}

\* np.nanmedian of column col over the rows P (the mean of the two middle
\* values is exact on the even inputs of the model)
NanMedian(df, P, col) ==
  LET known == {p \in P : ~isnan(df[p][col])}
      n == Cardinality(known)
      Before(a, b) == Val(df[a][col]) < Val(df[b][col])
                        \/ (Val(df[a][col]) = Val(df[b][col]) /\ a < b)
      At(k) == CHOOSE p \in known : Cardinality({o \in known : Before(o, p)}) = k - 1
  IN IF n = 0 THEN NaN
     ELSE IF n % 2 = 1 THEN df[At((n + 1) \div 2)][col]
     ELSE Num((Val(df[At(n \div 2)][col]) + Val(df[At(n \div 2 + 1)][col])) \div 2)

DropCols(r, S) == [c \in DOMAIN r \ S |-> r[c]]

\* r with the columns cs set to the values vs
SetCols(r, cs, vs) ==
  [c \in DOMAIN r \cup {cs[k] : k \in DOMAIN cs} |->
     IF \E k \in DOMAIN cs : cs[k] = c
       THEN vs[CHOOSE k \in DOMAIN cs : cs[k] = c]
       ELSE r[c]]

IsDefault(r) == r.default_flag = 1

\* lines 124-127
Thinned(df) ==
  LET SameName(p) == {o \in DOMAIN df : df[o].pl_name = df[p].pl_name}
      med(p) == [c \in DOMAIN df[p] |->
                   IF c \in MedianCols(df[p]) THEN NanMedian(df, SameName(p), c)
                   ELSE df[p][c]]
      all == [p \in DOMAIN df |-> IF IsDefault(df[p]) THEN med(p) ELSE df[p]]
      kept == SelectSeq(all, IsDefault)
  IN [p \in DOMAIN kept |-> DropCols(kept[p], {"default_flag"})]

\* the same, comparing each row with the next one only
HasDuplicates_Adjacent(df) ==
  \E p, o \in DOMAIN df :
    o = p + 1 /\ df[p].hostname = df[o].hostname /\ df[p].pl_name = df[o].pl_name

\* len(dp) > 0, lines 131-135
HasDuplicates(df) ==
  \E p, o \in DOMAIN df :
    p # o /\ df[p].hostname = df[o].hostname /\ df[p].pl_name = df[o].pl_name

\* the mask with all() for any(): every row of the host lacks one of them
RemovedIfAll(df, r) ==
  \A p \in HostRows(df, r.hostname) : isnan(df[p].pl_bmasse) \/ isnan(df[p].pl_orbsmax)

\* the mask of lines 173-177: the row's host has a row without mass or
\* without semi-major axis
Removed(df, r) ==
  \E p \in HostRows(df, r.hostname) : isnan(df[p].pl_bmasse) \/ isnan(df[p].pl_orbsmax)

Stage(next, name, df) ==
  /\ tbl' = df
  /\ prev' = tbl
  /\ last' = name
  /\ pc' = next
  /\ UNCHANGED <<row, input, order, idx, calls, mc>>

\* line 117: `if not df` on a DataFrame raises ValueError, its truth value
\* being ambiguous
InterpDbRaise ==
  /\ pc = "interp_db"
  /\ args.df = "DataFrame"
  /\ pc' = "raised"
  /\ UNCHANGED <<row, input, order, idx, calls, tbl, prev, last, mc>>

\* lines 117-120: df is None, the table is read from data/exo.csv
InterpDbReload ==
  /\ pc = "interp_db"
  /\ args.df = "None"
  /\ pc' = "thin"
  /\ UNCHANGED <<row, input, order, idx, calls, tbl, prev, last, mc>>

\* lines 144-223, the stages of the form
\* df[columns] = df.swifter.apply(..., axis=1): on a table without rows apply returns the empty table
\* with all its columns, and the assignment to the columns of the stage
\* raises ValueError, the columns not being as many as the key
EmptyApplyRaise ==
  /\ pc \in {"eccentricity", "mass", "inclination", "sma", "relincl", "trueobliq"}
  /\ tbl = <<>>
  /\ pc' = "raised"
  /\ UNCHANGED <<row, input, order, idx, calls, tbl, prev, last, mc>>

\* lines 122-128
Thin ==
  /\ pc = "thin"
  /\ Stage("duplicates", "thin", Thinned(tbl))

\* lines 130-137: raise ValueError
DuplicatesRaise ==
  /\ pc = "duplicates"
  /\ HasDuplicates(tbl)
  /\ pc' = "raised"
  /\ UNCHANGED <<row, input, order, idx, calls, tbl, prev, last, mc>>

\* lines 138-142
InstantiateFlags ==
  /\ pc = "duplicates"
  /\ ~HasDuplicates(tbl)
  /\ Stage("eccentricity", "flag",
           [p \in DOMAIN tbl |-> SetCols(tbl[p], <<"flag">>, <<<<"0">>>>)])

\* lines 144-153
InterpEccentricity ==
  /\ pc = "eccentricity"
  /\ tbl # <<>>
  /\ Stage("mass", "eccentricity",
           [p \in DOMAIN tbl |->
              SetCols(tbl[p], ColsOf("ecc") \o <<"flag">>, interp_eccentricity(tbl[p]))])

\* lines 155-164
InterpMass ==
  /\ pc = "mass"
  /\ tbl # <<>>
  /\ \E q \in [DOMAIN tbl -> Predictions] :
       /\ \A p \in DOMAIN tbl : ~MassPredictable(tbl[p]) => q[p] = Unused
       /\ Stage("remove", "mass",
                [p \in DOMAIN tbl |->
                   SetCols(tbl[p], ColsOf("mass") \o <<"flag">>, interp_mass(tbl[p], q[p]))])

\* lines 166-181
RemoveSystems ==
  /\ pc = "remove"
  /\ LET df == [p \in DOMAIN tbl |-> DropCols(tbl[p], {"pl_rade", "pl_radeerr1", "pl_radeerr2"})]
         Kept(r) == ~Removed(df, r)
     IN Stage("inclination", "remove", SelectSeq(df, Kept))

\* lines 183-192
InterpInclination ==
  /\ pc = "inclination"
  /\ tbl # <<>>
  /\ Stage("sma", "inclination",
           [p \in DOMAIN tbl |->
              SetCols(tbl[p], ColsOf("incl") \o <<"flag">>, interp_inclination(tbl[p], tbl))])

\* lines 194-202
InterpSma ==
  /\ pc = "sma"
  /\ tbl # <<>>
  /\ Stage("relincl", "sma",
           [p \in DOMAIN tbl |->
              SetCols(tbl[p], <<"pl_orbsmaxerr1", "pl_orbsmaxerr2", "flag">>, interp_sma(tbl[p]))])

\* lines 205-213
SolveRelincl ==
  /\ pc = "relincl"
  /\ tbl # <<>>
  /\ Stage("trueobliq", "relincl",
           [p \in DOMAIN tbl |->
              SetCols(tbl[p], ColsOf("relincl"), solve_relincl(tbl[p], tbl))])

\* lines 215-232
InterpTrueobliq ==
  /\ pc = "trueobliq"
  /\ tbl # <<>>
  /\ Stage("interp_done", "trueobliq",
           [p \in DOMAIN tbl |->
              SetCols(tbl[p], ColsOf("obliq") \o <<"flag">>, interp_trueobliq(tbl[p], tbl))])

NextInterp ==
  \/ InterpDbRaise
  \/ InterpDbReload
  \/ EmptyApplyRaise
  \/ Thin
  \/ DuplicatesRaise
  \/ InstantiateFlags
  \/ InterpEccentricity
  \/ InterpMass
  \/ RemoveSystems
  \/ InterpInclination
  \/ InterpSma
  \/ SolveRelincl
  \/ InterpTrueobliq

-----------------------------------------------------------------------------
(* The tables interp_db is run on.  Host "A" has NPlanets planets; the     *)
(* rows differ in which of value, err1 and err2 each quantity reports.     *)
(* Reported values are even counts that tell the rows apart: 2 * index     *)
(* above the quantity's base, with errors +2 * index and -2 * index.       *)

\* what a quantity may report: all of value, err1 and err2; the value
\* alone; the value with one error; nothing; the errors without the value
Patterns == {{"v", "e1", "e2"}, {"v"}, {"v", "e1"}, {"v", "e2"}, {}, {"e1", "e2"}}

Full == {"v", "e1", "e2"}

\* the entry a row reports for `part` of a quantity, or NaN
Entry(pat, part, n) == IF part \in pat THEN Num(n) ELSE NaN

\* the radius columns: a radius inside the window, none, one on the edge
\* of the window, or one without its upper error
RadiusKinds == {"ok", "nan", "edge", "noerr"}

RadiusPattern(kind) ==
  IF kind = "nan" THEN {} ELSE IF kind = "noerr" THEN {"v", "e2"} ELSE Full

RadiusValue(kind, i) == IF kind = "edge" THEN MaxRadius ELSE 10 + 2 * i

\* a catalog row: pat gives what each quantity reports
MkRow(i, host, name, dflag, pnum, pat, massv, radk) ==
  [index |-> i, hostname |-> host, pl_name |-> name, default_flag |-> dflag,
   sy_pnum |-> pnum,
   pl_orbeccen |-> Entry(pat["ecc"], "v", 1000 + 2 * i),
   pl_orbeccenerr1 |-> Entry(pat["ecc"], "e1", 2 * i),
   pl_orbeccenerr2 |-> Entry(pat["ecc"], "e2", 0 - 2 * i),
   pl_bmasse |-> Entry(pat["mass"], "v", massv),
   pl_bmasseerr1 |-> Entry(pat["mass"], "e1", 2 * i),
   pl_bmasseerr2 |-> Entry(pat["mass"], "e2", 0 - 2 * i),
   pl_rade |-> Entry(RadiusPattern(radk), "v", RadiusValue(radk, i)),
   pl_radeerr1 |-> Entry(RadiusPattern(radk), "e1", 2),
   pl_radeerr2 |-> Entry(RadiusPattern(radk), "e2", 0 - 2),
   pl_orbsmax |-> Entry(pat["sma"], "v", 100 + 2 * i),
   pl_orbsmaxerr1 |-> Entry(pat["sma"], "e1", 2 * i),
   pl_orbsmaxerr2 |-> Entry(pat["sma"], "e2", 0 - 2 * i),
   pl_orbincl |-> Entry(pat["incl"], "v", 80 + 2 * i),
   pl_orbinclerr1 |-> Entry(pat["incl"], "e1", 2 * i),
   pl_orbinclerr2 |-> Entry(pat["incl"], "e2", 0 - 2 * i),
   pl_trueobliq |-> Entry(pat["obliq"], "v", 10 + 2 * i),
   pl_trueobliqerr1 |-> Entry(pat["obliq"], "e1", 2 * i),
   pl_trueobliqerr2 |-> Entry(pat["obliq"], "e2", 0 - 2 * i)]

Quantities == {"ecc", "mass", "sma", "incl", "obliq"}

\* what the quantities other than the varied one report: everything
\* ("full"), or nothing but a radius and a semi-major axis ("none")
BasePattern(base, g) ==
  IF base = "full" THEN Full ELSE IF g = "sma" THEN {"v"} ELSE {}

PatternOf(g, fp, base) == [h \in Quantities |-> IF h = g THEN fp ELSE BasePattern(base, h)]

Planets == 1..NPlanets

\* the planets of host A, heavier with the index, the quantity g varying
\* freely over the rows and the other quantities fully reported
VariedTable(df) ==
  \E g \in Quantities :
    \E fp \in [Planets -> Patterns] :
      \E pnum \in IF g = "ecc" THEN {NaN, Num(NPlanets)} ELSE {Num(NPlanets)} :
        \E radk \in IF g = "mass" THEN RadiusKinds ELSE {"ok"} :
          df = [i \in Planets |->
                  MkRow(i, "A", <<"A", i>>, 1, pnum, PatternOf(g, fp[i], "full"), 10 * i, radk)]

\* the planets of host A with every order of their masses, ties included,
\* each reporting the angle g or not
RankedTable(df) ==
  \E g \in {"incl", "obliq"} :
    \E has \in [Planets -> BOOLEAN] :
      \E rank \in [Planets -> 1..2] :
        df = [i \in Planets |->
                MkRow(i, "A", <<"A", i>>, 1, Num(NPlanets),
                      PatternOf(g, IF has[i] THEN Full ELSE {}, "full"), 10 * rank[i], "ok")]

\* the planets of host A reporting nothing but a radius, a semi-major axis
\* and, some of them, the quantity g
SparseTable(df) ==
  \E g \in Quantities :
    \E has \in [Planets -> BOOLEAN] :
      df = [i \in Planets |->
              MkRow(i, "A", <<"A", i>>, 1, Num(NPlanets),
                    PatternOf(g, IF has[i] THEN Full ELSE BasePattern("none", g), "none"),
                    10 * i, "ok")]

\* host B with one planet before two planets of host A
TwoHostTable(df) ==
  \E g \in {"mass", "sma", "incl", "obliq"} :
    \E fb \in Patterns, fa \in Patterns, ra \in {1, 3} :
      df = <<MkRow(1, "B", <<"B", 1>>, 1, Num(1), PatternOf(g, fb, "full"), 10, "nan"),
             MkRow(2, "A", <<"A", 2>>, 1, Num(2), PatternOf(g, fa, "full"), 10 * ra, "nan"),
             MkRow(3, "A", <<"A", 3>>, 1, Num(2), PatternOf(g, Full, "full"), 20, "nan")>>

\* a planet of host A reported twice: its default row and another solution
AlternativeTable(df) ==
  \E g \in Quantities :
    \E fd \in Patterns, fo \in Patterns :
      df = <<MkRow(1, "A", <<"A", 1>>, 1, Num(2), PatternOf(g, fd, "full"), 10, "ok"),
             MkRow(2, "A", <<"A", 2>>, 1, Num(2), PatternOf(g, Full, "full"), 20, "ok"),
             MkRow(3, "A", <<"A", 1>>, 0, Num(2), PatternOf(g, fo, "none"), 30, "nan")>>

\* two default rows with the same hostname and planet name
DuplicateTable(df) ==
  \E g \in Quantities :
    \E fo \in Patterns, dup \in 1..2 :
      df = <<MkRow(1, "A", <<"A", 1>>, 1, Num(2), PatternOf(g, Full, "full"), 10, "ok"),
             MkRow(2, "A", <<"A", 2>>, 1, Num(2), PatternOf(g, Full, "full"), 20, "ok"),
             MkRow(3, "A", <<"A", dup>>, 1, Num(2), PatternOf(g, fo, "full"), 30, "ok")>>

\* interp_db called with a DataFrame, or with None and the table in
\* data/exo.csv: tbl is the table given or the table of the file
InitInterp ==
  /\ pc = "interp_db"
  /\ prev = <<>>
  /\ last = "none"
  /\ row = <<>>
  /\ input = <<>>
  /\ order = <<>>
  /\ idx = 0
  /\ calls = <<>>
  /\ \E df \in {"None", "DataFrame"} : args = [fn |-> "interp_db", df |-> df]
  /\ samples = <<>>
  /\ out = <<>>
  /\ rng = Unseeded
  /\ \/ VariedTable(tbl)
     \/ RankedTable(tbl)
     \/ SparseTable(tbl)
     \/ TwoHostTable(tbl)
     \/ AlternativeTable(tbl)
     \/ DuplicateTable(tbl)

SpecInterp == InitInterp /\ [][NextInterp]_vars

\* create_db's solve_values on a row, or interp_db on a table
Init == InitSolve \/ InitInterp

Next == NextSolve \/ NextInterp

Spec == Init /\ [][Next]_vars

-----------------------------------------------------------------------------
(* The Monte Carlo engine: solve_amd_mc (solve.py) and compute_namd_mcmc   *)
(* (core.py).  A mass is an integer count of Earth masses, a semi-major    *)
(* axis an integer count of AU, an eccentricity a count of tenths and an   *)
(* angle a count of degrees.  An AMD, a NAMD or a quantile is an exact     *)
(* fraction <<n, d>> in lowest terms with d > 0.  A normal draw with a     *)
(* positive scale can be any real: the model lets it be any value of a     *)
(* grid that has values on both sides of, and on, every bound of the mask. *)

\* the samples drawn in one call
MaxNpt == 2

Abs(x) == IF x < 0 THEN 0 - x ELSE x

RECURSIVE GCD(_, _)
GCD(a, b) == IF b = 0 THEN a ELSE GCD(b, a % b)

\* n / d; 0 / 0 is NaN and n / 0 an infinity
Frac(n, d) ==
  IF d = 0
    THEN IF n = 0 THEN NaN ELSE <<IF n < 0 THEN 0 - 1 ELSE 1, 0>>
    ELSE LET g == GCD(Abs(n), Abs(d))
             sgn == IF d < 0 THEN 0 - 1 ELSE 1
         IN <<(sgn * n) \div g, (sgn * d) \div g>>

FAdd(x, y) ==
  IF isnan(x) \/ isnan(y) THEN NaN ELSE Frac(x[1] * y[2] + y[1] * x[2], x[2] * y[2])

FSub(x, y) ==
  IF isnan(x) \/ isnan(y) THEN NaN ELSE Frac(x[1] * y[2] - y[1] * x[2], x[2] * y[2])

FDiv(x, y) ==
  IF isnan(x) \/ isnan(y) THEN NaN ELSE Frac(x[1] * y[2], x[2] * y[1])

\* x * n / d
FScale(x, n, d) == IF isnan(x) THEN NaN ELSE Frac(x[1] * n, x[2] * d)

FLeq(x, y) == x[1] * y[2] <= y[1] * x[2]

\* np.sqrt of a perfect square, NaN below zero
Sqrt(n) == IF n < 0 THEN NaN ELSE <<CHOOSE k \in 0..n : k * k = n>>

\* twice the cosine of an angle in degrees
Cos2(di) ==
  LET d == di % 360
  IN CASE d = 0 -> 2
       [] d \in {60, 300} -> 1
       [] d \in {90, 270} -> 0
       [] d \in {120, 240} -> 0 - 1
       [] d = 180 -> 0 - 2

\* compute_amd with the sign of the cosine term reversed
compute_amd_Plus(m, e, di, a) ==
  LET sqrt_a == Sqrt(a)
      root == Sqrt(100 - e * e)
  IN IF isnan(sqrt_a) \/ isnan(root)
       THEN NaN
       ELSE Frac(m * sqrt_a[1] * (20 + root[1] * Cos2(di)), 20)

\* core.py, lines 6-7, for e in tenths and di in degrees
compute_amd(m, e, di, a) ==
  LET sqrt_a == Sqrt(a)
      root == Sqrt(100 - e * e)
  IN IF isnan(sqrt_a) \/ isnan(root)
       THEN NaN
       ELSE Frac(m * sqrt_a[1] * (20 - root[1] * Cos2(di)), 20)

\* the values a draw of each parameter can take when its scale is positive
MassDraws == {0 - 1, 0, 1, 3}

SmaDraws == {0 - 1, 0, 1, 4}

EccDraws == {0 - 6, 0, 6, 10, 12}

AngleDraws == {0 - 60, 0, 60, 180, 240}

\* the arrays of Npt draws: every array over the values when Npt is small;
\* of the long arrays, those holding one value up to an index around
\* Npt // 20 and one value beyond it
Arrays(draws, Npt) ==
  IF Npt <= MaxNpt
    THEN [1..Npt -> draws]
    ELSE {[k \in 1..Npt |-> IF k <= j THEN x ELSE y] :
            j \in 0..(Npt \div 20 + 1), x \in draws, y \in draws}

\* np.random.normal(loc, 0.5 * (err1 - err2), Npt): a scale of zero gives loc
Normal(loc, err1, err2, draws, Npt) ==
  IF err1 - err2 = 0 THEN [1..Npt -> {loc}] ELSE Arrays(draws, Npt)

\* the default of the parameter seed, core.py line 19
DefaultSeed == 42

\* np.random.seed(seed): the stream of the seed, from its start
random_seed(g, seed) == [g EXCEPT !.key = <<seed>>, !.pos = 0]

\* what np.random.normal can return in the state g of the generator, out of
\* the arrays S: the state fixes the variates, so a state met again gives
\* the array it gave
Variates(g, S) ==
  IF <<g.key, g.pos>> \in DOMAIN g.tape THEN {g.tape[<<g.key, g.pos>>]} ELSE S

\* the generator after np.random.normal returned arr for the column what
Advance(g, arr, what) ==
  [key |-> g.key,
   pos |-> g.pos + Len(arr),
   tape |-> g.tape @@ (<<g.key, g.pos>> :> arr),
   log |-> Append(g.log, what)]

\* the entries of an array that the mask keeps, in index order
Compressed(data, mask) ==
  LET ks == SelectSeq([k \in 1..Len(mask) |-> k], LAMBDA k : mask[k])
  IN [j \in 1..Len(ks) |-> data[ks[j]]]

RECURSIVE Insert(_, _)
Insert(x, s) ==
  IF s = <<>> THEN <<x>>
  ELSE IF FLeq(x, Head(s)) THEN <<x>> \o s
  ELSE <<Head(s)>> \o Insert(x, Tail(s))

RECURSIVE Sort(_)
Sort(s) == IF s = <<>> THEN <<>> ELSE Insert(Head(s), Sort(Tail(s)))

\* the value at rank qn / qd of the sorted values, linearly interpolated
Quantile(v, qn, qd) ==
  LET s == Sort(v)
      n == Len(s)
      t == qn * (n - 1)
      lo == t \div qd + 1
      rem == t % qd
  IN IF n = 0 THEN NaN
     ELSE IF rem = 0 THEN s[lo]
     ELSE FAdd(s[lo], FScale(FSub(s[lo + 1], s[lo]), rem, qd))

\* np.percentile(a, [0.16, 0.5, 0.84]): the ranks are percents
Percentiles(a) ==
  [q16 |-> Quantile(a, 16, 10000), q50 |-> Quantile(a, 50, 10000),
   q84 |-> Quantile(a, 84, 10000)]

\* pandas quantile([0.16, 0.5, 0.84]), which skips NaN
Quantiles(namd) ==
  LET a == SelectSeq(namd, LAMBDA x : ~isnan(x))
  IN [q16 |-> Quantile(a, 16, 100), q50 |-> Quantile(a, 50, 100),
      q84 |-> Quantile(a, 84, 100)]

NaNQuantiles == [q16 |-> NaN, q50 |-> NaN, q84 |-> NaN]

(* solve_amd_mc *)

\* the keys of di, lines 169 and 207-214
Kinds == {"rel", "abs"}

\* the angle column that kind selects
Di(r, kind) ==
  IF kind = "rel"
    THEN [v |-> r.pl_relincl, err1 |-> r.pl_relinclerr1, err2 |-> r.pl_relinclerr2]
    ELSE [v |-> r.pl_trueobliq, err1 |-> r.pl_trueobliqerr1, err2 |-> r.pl_trueobliqerr2]

\* line 197
Stored == ~args.namd /\ args.kind \in DOMAIN row.amd_q

\* lines 229-236
Mask(mass_mc, eccen_mc, di_mc, sma_mc) ==
  [k \in 1..Len(mass_mc) |->
     /\ mass_mc[k] > 0
     /\ eccen_mc[k] >= 0
     /\ eccen_mc[k] < 10
     /\ di_mc[k] >= 0
     /\ di_mc[k] < 180
     /\ sma_mc[k] > 0]

\* lines 197-198: the quantiles are on the row already
AmdMcStored ==
  /\ pc = "solve_amd_mc"
  /\ Stored
  /\ out' = row.amd_q[args.kind]
  /\ pc' = "mc_done"
  /\ UNCHANGED <<row, input, order, idx, calls, tbl, prev, last, args, samples, rng>>

\* lines 200-241: draw mass, eccentricity, angle and semi-major axis, mask
AmdMcSample ==
  /\ pc = "solve_amd_mc"
  /\ ~Stored
  /\ args.kind \in Kinds
  /\ LET di == Di(row, args.kind)
     IN \E mass_mc \in Variates(rng, Normal(row.pl_bmasse, row.pl_bmasseerr1,
                                            row.pl_bmasseerr2, MassDraws, args.Npt)) :
        LET g1 == Advance(rng, mass_mc, "mass")
        IN \E eccen_mc \in Variates(g1, Normal(row.pl_orbeccen, row.pl_orbeccenerr1,
                                                row.pl_orbeccenerr2, EccDraws, args.Npt)) :
           LET g2 == Advance(g1, eccen_mc, "eccen")
           IN \E di_mc \in Variates(g2, Normal(di.v, di.err1, di.err2,
                                                AngleDraws, args.Npt)) :
              LET g3 == Advance(g2, di_mc, "di")
              IN \E sma_mc \in Variates(g3, Normal(row.pl_orbsmax, row.pl_orbsmaxerr1,
                                                    row.pl_orbsmaxerr2, SmaDraws, args.Npt)) :
                   /\ samples' = [mass_mc |-> mass_mc, eccen_mc |-> eccen_mc,
                                  di_mc |-> di_mc, sma_mc |-> sma_mc,
                                  mask |-> Mask(mass_mc, eccen_mc, di_mc, sma_mc)]
                   /\ rng' = Advance(g3, sma_mc, "sma")
  /\ pc' = "amd_mc_masked"
  /\ UNCHANGED <<row, input, order, idx, calls, tbl, prev, last, args, out>>

\* lines 200-225: di[kind] raises KeyError once the mass and the
\* eccentricity are drawn
AmdMcKeyError ==
  /\ pc = "solve_amd_mc"
  /\ ~Stored
  /\ args.kind \notin Kinds
  /\ \E mass_mc \in Variates(rng, Normal(row.pl_bmasse, row.pl_bmasseerr1,
                                         row.pl_bmasseerr2, MassDraws, args.Npt)) :
     LET g1 == Advance(rng, mass_mc, "mass")
     IN \E eccen_mc \in Variates(g1, Normal(row.pl_orbeccen, row.pl_orbeccenerr1,
                                             row.pl_orbeccenerr2, EccDraws, args.Npt)) :
          /\ samples' = [mass_mc |-> mass_mc, eccen_mc |-> eccen_mc]
          /\ rng' = Advance(g1, eccen_mc, "eccen")
  /\ pc' = "raised"
  /\ UNCHANGED <<row, input, order, idx, calls, tbl, prev, last, args, out>>

\* line 244
Enough == Len(Compressed(samples.mass_mc, samples.mask)) >= args.threshold

\* line 255, on the masked arrays
AmdArray ==
  [k \in 1..args.Npt |->
     compute_amd(samples.mass_mc[k], samples.eccen_mc[k], samples.di_mc[k],
                 samples.sma_mc[k])]

AmdMcReturn(value) ==
  /\ out' = value
  /\ pc' = "mc_done"
  /\ UNCHANGED <<row, input, order, idx, calls, tbl, prev, last, args, samples, rng>>

\* lines 244-252
AmdMcTooFew ==
  /\ pc = "amd_mc_masked"
  /\ ~Enough
  /\ AmdMcReturn(NaNQuantiles)

\* lines 254-264
AmdMcArrays ==
  /\ pc = "amd_mc_masked"
  /\ Enough
  /\ args.namd
  /\ AmdMcReturn([amd_mc |-> AmdArray, mass_mc |-> samples.mass_mc,
                  sqrt_sma_mc |-> [k \in 1..args.Npt |-> Sqrt(samples.sma_mc[k])],
                  mask |-> [k \in 1..args.Npt |-> ~samples.mask[k]]])

\* lines 254-274
AmdMcQuantiles ==
  /\ pc = "amd_mc_masked"
  /\ Enough
  /\ ~args.namd
  /\ AmdMcReturn(Percentiles(Compressed(AmdArray, samples.mask)))

(* compute_namd_mcmc *)

\* line 24
user_df == SelectSeq(tbl, LAMBDA r : r.hostname = args.userid)

\* lines 68-75
good_idx(mass, sma, ecc, relincl) ==
  [k \in 1..Len(mass) |->
     /\ ecc[k] >= 0
     /\ ecc[k] <= 10
     /\ Abs(relincl[k]) >= 0
     /\ Abs(relincl[k]) <= 180
     /\ sma[k] >= 0
     /\ mass[k] >= 0]

\* lines 22-39: seed the generator, select the host, make the empty frame
\* of samples
NamdMcmcSeed ==
  /\ pc = "compute_namd_mcmc"
  /\ idx = 0
  /\ rng' = random_seed(rng, args.seed)
  /\ samples' = [index |-> [k \in 1..args.Npt |-> k], planets |-> <<>>]
  /\ idx' = 1
  /\ UNCHANGED <<pc, row, input, order, calls, tbl, prev, last, args, out>>

\* lines 41-82: the draws, the mask and the AMD of the planet at idx
NamdMcmcPlanet ==
  /\ pc = "compute_namd_mcmc"
  /\ idx >= 1
  /\ idx <= Len(user_df)
  /\ LET pl_df == user_df[idx]
         col(name) == <<name, pl_df.pl_name>>
     IN \E mass \in Variates(rng, Normal(pl_df.pl_bmasse, pl_df.pl_bmasseerr1,
                                         pl_df.pl_bmasseerr2, MassDraws, args.Npt)) :
        LET g1 == Advance(rng, mass, col("pl_bmasse"))
        IN \E sma \in Variates(g1, Normal(pl_df.pl_orbsmax, pl_df.pl_orbsmaxerr1,
                                           pl_df.pl_orbsmaxerr2, SmaDraws, args.Npt)) :
           LET g2 == Advance(g1, sma, col("pl_orbsmax"))
           IN \E ecc \in Variates(g2, Normal(pl_df.pl_orbeccen, pl_df.pl_orbeccenerr1,
                                              pl_df.pl_orbeccenerr2, EccDraws, args.Npt)) :
              LET g3 == Advance(g2, ecc, col("pl_orbeccen"))
              IN \E relincl \in Variates(g3, Normal(pl_df.pl_relincl, pl_df.pl_relinclerr1,
                                                     pl_df.pl_relinclerr2, AngleDraws,
                                                     args.Npt)) :
                   /\ samples' = [samples EXCEPT !.planets = Append(@,
                         [pl_name |-> pl_df.pl_name,
                          pl_bmasse |-> mass, pl_orbsmax |-> sma, pl_orbeccen |-> ecc,
                          pl_relincl |-> relincl,
                          good_idx |-> good_idx(mass, sma, ecc, relincl),
                          amd |-> [k \in 1..args.Npt |->
                                     compute_amd(mass[k], ecc[k], relincl[k], sma[k])]])]
                   /\ rng' = Advance(g3, relincl, col("pl_relincl"))
  /\ idx' = idx + 1
  /\ UNCHANGED <<pc, row, input, order, calls, tbl, prev, last, args, out>>

\* the sum of the fractions f[1], ..., f[n]
RECURSIVE FSum(_, _)
FSum(f, n) == IF n = 0 THEN Frac(0, 1) ELSE FAdd(FSum(f, n - 1), f[n])

\* any(axis=1) in the place of all(axis=1)
AnyGood(planets, k) == \E p \in 1..Len(planets) : planets[p].good_idx[k]

\* line 86, all(axis=1) over the good_idx columns
AllGood(planets, k) == \A p \in 1..Len(planets) : planets[p].good_idx[k]

\* lines 84-105: the rows kept, and on them namd_num, namd_den and namd
Combined(planets, Npt) ==
  LET n == Len(planets)
      index == SelectSeq([k \in 1..Npt |-> k], LAMBDA k : AllGood(planets, k))
      num(k) == FSum([p \in 1..n |-> planets[p].amd[k]], n)
      den(k) == FSum([p \in 1..n |->
                        LET sqrt_a == Sqrt(planets[p].pl_orbsmax[k])
                        IN IF isnan(sqrt_a) THEN NaN
                           ELSE Frac(planets[p].pl_bmasse[k] * sqrt_a[1], 1)], n)
  IN [index |-> index, planets |-> planets,
      namd_num |-> [j \in 1..Len(index) |-> num(index[j])],
      namd_den |-> [j \in 1..Len(index) |-> den(index[j])],
      namd |-> [j \in 1..Len(index) |-> FDiv(num(index[j]), den(index[j]))]]

NamdMcmcCombine ==
  /\ pc = "compute_namd_mcmc"
  /\ idx = Len(user_df) + 1
  /\ samples' = Combined(samples.planets, args.Npt)
  /\ pc' = "namd_mcmc_combined"
  /\ UNCHANGED <<row, input, order, idx, calls, tbl, prev, last, args, out, rng>>

\* lines 107-152
NamdMcmcReturn ==
  /\ pc = "namd_mcmc_combined"
  /\ LET N == user_df[1].sy_pnum
         q == IF Len(samples.index) < args.Npt \div 20
                THEN NaNQuantiles
                ELSE Quantiles(samples.namd)
     IN out' = [q16 |-> q.q16, q50 |-> q.q50, q84 |-> q.q84, N |-> N,
                samples |-> IF Len(samples.index) >= args.Npt \div 20 /\ args.return_samples
                              THEN samples ELSE <<>>]
  /\ pc' = "mc_done"
  /\ UNCHANGED <<row, input, order, idx, calls, tbl, prev, last, args, samples, rng>>

\* run.py, lines 317-337: the caller runs the engine once more on the same
\* rows, the generator left as the call before left it
Reinvoke ==
  /\ pc = "mc_done"
  /\ Len(calls) < args.repeat
  /\ calls' = Append(calls, [fn |-> args.fn, out |-> out, log |-> rng.log])
  /\ rng' = [rng EXCEPT !.log = <<>>]
  /\ pc' = args.fn
  /\ idx' = 0
  /\ samples' = <<>>
  /\ out' = <<>>
  /\ UNCHANGED <<row, input, order, tbl, prev, last, args>>

NextMC ==
  \/ AmdMcStored
  \/ AmdMcSample
  \/ AmdMcKeyError
  \/ AmdMcTooFew
  \/ AmdMcArrays
  \/ AmdMcQuantiles
  \/ NamdMcmcSeed
  \/ NamdMcmcPlanet
  \/ NamdMcmcCombine
  \/ NamdMcmcReturn
  \/ Reinvoke

(* The rows given to the Monte Carlo engine *)

\* an upper error of 1 and a lower error of -1 on the parameters of unc,
\* errors of zero on the others
Err1(unc, q) == IF q \in unc THEN 1 ELSE 0

Err2(unc, q) == IF q \in unc THEN 0 - 1 ELSE 0

\* a row of the table interp_db stores, with the relative inclination
McRow(host, name, pnum, m, a, e, rel, obl, unc, amd_q) ==
  [hostname |-> host, pl_name |-> name, sy_pnum |-> pnum,
   pl_bmasse |-> m, pl_bmasseerr1 |-> Err1(unc, "mass"), pl_bmasseerr2 |-> Err2(unc, "mass"),
   pl_orbsmax |-> a, pl_orbsmaxerr1 |-> Err1(unc, "sma"), pl_orbsmaxerr2 |-> Err2(unc, "sma"),
   pl_orbeccen |-> e, pl_orbeccenerr1 |-> Err1(unc, "ecc"),
   pl_orbeccenerr2 |-> Err2(unc, "ecc"),
   pl_relincl |-> rel, pl_relinclerr1 |-> Err1(unc, "relincl"),
   pl_relinclerr2 |-> Err2(unc, "relincl"),
   pl_trueobliq |-> obl, pl_trueobliqerr1 |-> Err1(unc, "obliq"),
   pl_trueobliqerr2 |-> Err2(unc, "obliq"),
   amd_q |-> amd_q]

\* the quantile columns of an earlier call, for both kinds
StoredQuantiles ==
  [kind \in {"rel", "abs"} |-> [q16 |-> Frac(1, 5), q50 |-> Frac(2, 5), q84 |-> Frac(3, 5)]]

\* the parameters left uncertain on the row given to solve_amd_mc: none,
\* one, the two of the orbit's size or the two of its shape; fewer of them
\* with a kind that is no key of di
Uncertain(kind) ==
  LET angle == IF kind = "rel" THEN "relincl" ELSE "obliq"
  IN IF kind \in Kinds
       THEN {{}, {"mass"}, {"sma"}, {"ecc"}, {angle}, {"mass", "sma"}, {"ecc", angle}}
       ELSE {{}, {"mass"}, {"ecc"}}

InitAmdMc ==
  /\ pc = "solve_amd_mc"
  /\ \E kind \in Kinds \cup {"other"}, namd \in BOOLEAN, threshold \in {1, MaxNpt} :
     \E unc \in Uncertain(kind) :
     \E stored \in IF unc = {} THEN BOOLEAN ELSE {FALSE} :
       /\ row = McRow("A", <<"A", 1>>, 1, 1, 4, 6, 60, 120, unc,
                      IF stored THEN StoredQuantiles ELSE <<>>)
       /\ args = [fn |-> "solve_amd_mc", kind |-> kind, Npt |-> MaxNpt,
                  threshold |-> threshold, namd |-> namd, repeat |-> 0]
  /\ tbl = <<>>
  /\ idx = 0
  /\ samples = <<>>

\* solve_amd_mc called twice on a row with at most one uncertain parameter
InitAmdMcTwice ==
  /\ pc = "solve_amd_mc"
  /\ \E unc \in {{}, {"mass"}, {"ecc"}} :
       row = McRow("A", <<"A", 1>>, 1, 1, 4, 6, 60, 120, unc, <<>>)
  /\ args = [fn |-> "solve_amd_mc", kind |-> "rel", Npt |-> MaxNpt,
             threshold |-> 1, namd |-> FALSE, repeat |-> 1]
  /\ tbl = <<>>
  /\ idx = 0
  /\ samples = <<>>

\* compute_namd_mcmc on host A of a table with two planets of A, each with
\* at most one uncertain parameter, around a planet of host B; the relative
\* inclination of a planet is on either side of the most massive one's
InitNamdMcmc ==
  /\ pc = "compute_namd_mcmc"
  /\ \E u1 \in {{}, {"mass"}, {"sma"}, {"ecc"}, {"relincl"}} :
     \E u2 \in {{}, {"mass"}, {"sma"}, {"ecc"}, {"relincl"}} :
     \E rel \in IF u1 = {} THEN {60, 0 - 60} ELSE {60} :
       /\ tbl = <<McRow("A", <<"A", 1>>, 2, 1, 1, 6, rel, 120, u1, <<>>),
                 McRow("B", <<"B", 1>>, 1, 1, 1, 0, 0, 0, {"ecc"}, <<>>),
                 McRow("A", <<"A", 2>>, 2, 3, 4, 0, 0, 0, u2, <<>>)>>
       /\ \E return_samples \in IF u1 = {} THEN BOOLEAN ELSE {FALSE} :
            args = [fn |-> "compute_namd_mcmc", userid |-> "A", Npt |-> MaxNpt,
                    return_samples |-> return_samples, seed |-> DefaultSeed,
                    repeat |-> 0]
  /\ row = <<>>
  /\ idx = 0
  /\ samples = <<>>

\* compute_namd_mcmc called twice with the same seed on host A, a planet
\* of A with an uncertain parameter
InitNamdMcmcTwice ==
  /\ pc = "compute_namd_mcmc"
  /\ \E u1 \in {{"mass"}, {"relincl"}}, u2 \in {{}, {"ecc"}} :
       tbl = <<McRow("A", <<"A", 1>>, 2, 1, 1, 6, 60, 120, u1, <<>>),
               McRow("B", <<"B", 1>>, 1, 1, 1, 0, 0, 0, {"ecc"}, <<>>),
               McRow("A", <<"A", 2>>, 2, 3, 4, 0, 0, 0, u2, <<>>)>>
  /\ args = [fn |-> "compute_namd_mcmc", userid |-> "A", Npt |-> MaxNpt,
             return_samples |-> FALSE, seed |-> DefaultSeed, repeat |-> 1]
  /\ row = <<>>
  /\ idx = 0
  /\ samples = <<>>

\* compute_namd_mcmc with enough samples for Npt // 20 to be MaxNpt, the
\* first planet of host A with one uncertain parameter
InitNamdMcmcLong ==
  /\ pc = "compute_namd_mcmc"
  /\ \E u1 \in {{"mass"}, {"sma"}, {"ecc"}, {"relincl"}} :
       tbl = <<McRow("A", <<"A", 1>>, 2, 1, 1, 6, 60, 120, u1, <<>>),
               McRow("B", <<"B", 1>>, 1, 1, 1, 0, 0, 0, {"ecc"}, <<>>),
               McRow("A", <<"A", 2>>, 2, 3, 4, 0, 0, 0, {}, <<>>)>>
  /\ args = [fn |-> "compute_namd_mcmc", userid |-> "A", Npt |-> 20 * MaxNpt,
             return_samples |-> FALSE, seed |-> DefaultSeed, repeat |-> 0]
  /\ row = <<>>
  /\ idx = 0
  /\ samples = <<>>

InitMC ==
  /\ \/ InitAmdMc
     \/ InitAmdMcTwice
     \/ InitNamdMcmc
     \/ InitNamdMcmcTwice
     \/ InitNamdMcmcLong
  /\ input = <<>>
  /\ order = <<>>
  /\ calls = <<>>
  /\ prev = <<>>
  /\ last = "none"
  /\ out = <<>>
  /\ rng = Unseeded

SpecMC == InitMC /\ [][NextMC]_vars

-----------------------------------------------------------------------------
(* The point estimates: solve_amd and solve_namd (solve.py) *)

\* lines 167-173
solve_amd(r, kind) ==
  compute_amd(r.pl_bmasse, r.pl_orbeccen, Di(r, kind).v, r.pl_orbsmax)

\* the sum of the entries of f that are numbers: Series.sum skips NaN
RECURSIVE SumSkipNaN(_, _)
SumSkipNaN(f, n) ==
  IF n = 0 THEN Frac(0, 1)
  ELSE IF isnan(f[n]) THEN SumSkipNaN(f, n - 1)
  ELSE FAdd(SumSkipNaN(f, n - 1), f[n])

\* core.py, lines 10-11
compute_namd(amd, m, sqrt_a) ==
  FDiv(SumSkipNaN(amd, Len(amd)),
       SumSkipNaN([k \in 1..Len(m) |->
                     IF isnan(sqrt_a[k]) THEN NaN ELSE Frac(m[k] * sqrt_a[k][1], 1)],
                  Len(m)))

\* line 184
Host(r, df) == SelectSeq(df, LAMBDA x : x.hostname = r.hostname)

\* lines 183-192, the Series returned as the tuple of its entries
NamdOfHost(r, df, kind) ==
  LET host == Host(r, df)
  IN <<compute_namd([k \in 1..Len(host) |-> host[k].amd[kind]],
                    [k \in 1..Len(host) |-> host[k].pl_bmasse],
                    [k \in 1..Len(host) |-> Sqrt(host[k].pl_orbsmax)])>>

\* the same without the test of line 180
solve_namd_Recompute(r, df, kind) == NamdOfHost(r, df, kind)

\* lines 180-192
solve_namd(r, df, kind) ==
  IF kind \in DOMAIN r.namd THEN r.namd[kind] ELSE NamdOfHost(r, df, kind)

PointReturn(value, lookups) ==
  /\ out' = value
  /\ calls' = calls \o lookups
  /\ pc' = "point_done"
  /\ UNCHANGED <<row, input, order, idx, tbl, prev, last, args, samples, rng>>

\* lines 165-175
SolveAmd ==
  /\ pc = "solve_amd"
  /\ args.kind \in Kinds
  /\ PointReturn(<<solve_amd(row, args.kind)>>, <<>>)

\* line 170: di[kind] raises KeyError
SolveAmdKeyError ==
  /\ pc = "solve_amd"
  /\ args.kind \notin Kinds
  /\ pc' = "raised"
  /\ UNCHANGED <<row, input, order, idx, calls, tbl, prev, last, args, samples, out, rng>>

\* lines 180-186: df has no column amd_<kind>, host[...] raises KeyError
SolveNamdKeyError ==
  /\ pc = "solve_namd"
  /\ args.kind \notin DOMAIN row.namd
  /\ args.kind \notin DOMAIN row.amd
  /\ pc' = "raised"
  /\ UNCHANGED <<row, input, order, idx, calls, tbl, prev, last, args, samples, out, rng>>

\* lines 180-181: the NAMD is on the row already
SolveNamdStored ==
  /\ pc = "solve_namd"
  /\ args.kind \in DOMAIN row.namd
  /\ PointReturn(solve_namd(row, tbl, args.kind), <<>>)

\* lines 183-192: look the host up in df and compute
SolveNamdCompute ==
  /\ pc = "solve_namd"
  /\ args.kind \notin DOMAIN row.namd
  /\ args.kind \in DOMAIN row.amd
  /\ PointReturn(solve_namd(row, tbl, args.kind),
                 <<[fn |-> "compute_namd", hostname |-> row.hostname,
                    rows |-> Len(Host(row, tbl))]>>)

NextPoint ==
  \/ SolveAmd
  \/ SolveAmdKeyError
  \/ SolveNamdStored
  \/ SolveNamdCompute
  \/ SolveNamdKeyError

\* a row of the table with its amd_rel and amd_abs columns and, on the
\* kinds of the domain of namd, its namd_<kind> column
PointRow(host, name, m, a, e, rel, obl, namd) ==
  McRow(host, name, 2, m, a, e, rel, obl, {}, <<>>)
    @@ [amd |-> [kind \in Kinds |-> compute_amd(m, e, IF kind = "rel" THEN rel ELSE obl, a)],
        namd |-> namd]

\* the namd_<kind> columns of an earlier call, on the kinds of ks
StoredNamd(ks) == [kind \in ks |-> Frac(1, 4)]

\* solve_amd or solve_namd on a row of a table with two planets of host A
\* around a planet of host B
InitPoint ==
  /\ \E fn \in {"solve_amd", "solve_namd"}, kind \in Kinds \cup {"other"} :
       /\ pc = fn
       /\ args = [fn |-> fn, kind |-> kind]
  /\ \E m1 \in {1, 3}, e1 \in {0, 6}, mb \in {1, 3}, e2 \in {0, 8}, r1 \in {60, 90} :
     \E ks \in {{}, {"rel"}, Kinds} :
       tbl = <<PointRow("A", <<"A", 1>>, m1, 1, e1, r1, 120, StoredNamd(ks)),
               PointRow("B", <<"B", 1>>, mb, 4, 6, 0, 60, StoredNamd(ks)),
               PointRow("A", <<"A", 2>>, 3, 4, e2, 0, 0, StoredNamd(ks))>>
  /\ \E i \in 1..3 : row = tbl[i] /\ idx = i
  /\ input = <<>>
  /\ order = <<>>
  /\ calls = <<>>
  /\ prev = <<>>
  /\ last = "none"
  /\ samples = <<>>
  /\ out = <<>>
  /\ rng = Unseeded

\* the engine that computes AMD and NAMD, point estimates and Monte Carlo
InitAmd == InitMC \/ InitPoint

NextAmd == NextMC \/ NextPoint

SpecAmd == InitAmd /\ [][NextAmd]_vars

\* the stages of interp_db and the point estimates, which look a row's host
\* up in the table
InitHosts == InitInterp \/ InitPoint

NextHosts == NextInterp \/ NextPoint

SpecHosts == InitHosts /\ [][NextHosts]_vars

\* run.py, line 295: "0", "05+", "05-" and "05+-"
core_flags ==
  {<<"0">>, <<"0", "5", "+">>, <<"0", "5", "-">>, <<"0", "5", "+", "-">>}

\* lines 228-229 and 239: the table written by to_csv and read back by
\* pd.read_csv.  The file is written with index=False, so the rows come
\* back labelled by their position.  A flag column holding "0" on every row comes back as a
\* column of integers; with any other flag in it, it stays a column of
\* strings.  <<"int64", "0">> stands for the number 0, which is not the
\* string "0"
ReadCsv(df) ==
  LET int64 == \A p \in DOMAIN df : df[p].flag = <<"0">>
  IN [p \in DOMAIN df |->
        [df[p] EXCEPT !.index = p,
                      !.flag = IF int64 THEN <<"int64", "0">> ELSE @]]

\* line 237: `if not df` on a DataFrame raises ValueError
CalcNamdRaise ==
  /\ pc = "interp_done"
  /\ \E core \in BOOLEAN :
       args' = [fn |-> "calc_namd", df |-> "DataFrame", core |-> core]
  /\ pc' = "raised"
  /\ UNCHANGED <<row, input, order, idx, calls, tbl, prev, last, samples, out, rng>>

\* lines 237-244: df is None, the table is read from data/exo_interp.csv,
\* which interp_db wrote, and loses the columns of the inclination
CalcNamdReload ==
  /\ pc = "interp_done"
  /\ \E core \in BOOLEAN :
       args' = [fn |-> "calc_namd", df |-> "None", core |-> core]
  /\ LET df == ReadCsv(tbl)
     IN tbl' = [p \in DOMAIN df |-> DropCols(df[p], {"pl_orbincl", "pl_orbinclerr1",
                                                    "pl_orbinclerr2"})]
  /\ prev' = tbl
  /\ last' = "reload"
  /\ pc' = "calc_namd"
  /\ UNCHANGED <<row, input, order, idx, calls, samples, out, rng>>

\* lines 248-264: the NAMD of each host merged back on its rows as the
\* column namd_<kind>, the rows kept as they are.  The NAMD of the kind is
\* held as a term over the mass, the eccentricity, the angle of the kind
\* and the semi-major axis of each planet of the host
groupby_apply_merge(df, kind) ==
  LET NamdTerm(r) ==
        LET host == Host(r, df)
        IN [namd |-> kind,
            planets |-> [k \in DOMAIN host |->
                           <<host[k].pl_bmasse, host[k].pl_orbeccen,
                             IF kind = "rel" THEN host[k].pl_relincl
                                             ELSE host[k].pl_trueobliq,
                             host[k].pl_orbsmax>>]]
  IN [p \in DOMAIN df |->
        SetCols(df[p], <<IF kind = "rel" THEN "namd_rel" ELSE "namd_abs">>,
                <<NamdTerm(df[p])>>)]

\* lines 246-264: the relative and the absolute NAMD
CalcNamdPoint ==
  /\ pc = "calc_namd"
  /\ Stage("core", "namd", groupby_apply_merge(groupby_apply_merge(tbl, "rel"), "abs"))

\* line 296: the rows of the hosts whose flags are all core flags
CoreRows(df) ==
  SelectSeq(df, LAMBDA r : \A p \in HostRows(df, r.hostname) : df[p].flag \in core_flags)

\* lines 293-297: core is True, the core sample is kept
CoreSample ==
  /\ pc = "core"
  /\ args.core
  /\ Stage("core_done", "core", CoreRows(tbl))

\* line 293: core is False, the full sample goes on
CoreSkip ==
  /\ pc = "core"
  /\ ~args.core
  /\ pc' = "core_done"
  /\ UNCHANGED <<row, input, order, idx, calls, tbl, prev, last, mc>>

\* interp_db followed by calc_namd, up to its core sample
NextCore ==
  \/ NextInterp
  \/ CalcNamdRaise
  \/ CalcNamdReload
  \/ CalcNamdPoint
  \/ CoreSample
  \/ CoreSkip

SpecCore == InitInterp /\ [][NextCore]_vars

-----------------------------------------------------------------------------
(* Claims about the solver *)

\* the count of missing members of a triad <<a, b, c>>, 0 to 3
Missing3(t) == Cardinality({k \in 1..3 : isnan(t[k])})

\* the count of missing members of triad i in the row r
MissingCount(r, i) == Missing3(<<r[Members(i)[1]], r[Members(i)[2]], r[Members(i)[3]]>>)

\* the solver of triad i on the triple t
Solver(i, t) ==
  IF i = 0 THEN solve_a_rs(t[1], t[2], t[3])
  ELSE IF i = 1 THEN solve_rprs(t[1], t[2], t[3])
  ELSE solve_a_period(t[1], t[2], t[3])

Blank(t, k) == [j \in 1..3 |-> IF j = k THEN NaN ELSE t[j]]

\* the roots taken by solve_a_period stay in the representation: every
\* value the model computes is the exact real value
RootsExact ==
  \A n \in 1..Len(calls) :
    LET b == calls[n].before
    IN calls[n].triad = 2 /\ Missing3(b) = 1 =>
         /\ isnan(b[1]) => PowExact(Div(PowQ(b[2], 3, 1), b[3]), 1, 2)
         /\ isnan(b[2]) => PowExact(Mul(PowQ(Div(b[1], Ck), 2, 1), b[3]), 1, 3)

\* C1: every call of a triad solver on an input with zero, two or three
\* missing members returns the three members as given.
C1_NoOpUnlessOneMissing ==
  \A n \in 1..Len(calls) :
    Missing3(calls[n].before) # 1 => calls[n].after = calls[n].before

\* a row on which one solver was called with two members missing and another
\* with none missing, and both returned
C1_Witness ==
  /\ pc = "solve_done"
  /\ \E n \in 1..Len(calls) : Missing3(calls[n].before) = 2
  /\ \E n \in 1..Len(calls) : Missing3(calls[n].before) = 0

\* C2: every call of a triad solver on an input with exactly one missing
\* member fills that member, leaves the two known members as they are, and
\* the filled triad satisfies the relation: blanking either known member and
\* solving again gives that member's original value.
C2_FillsAndInverts ==
  \A n \in 1..Len(calls) :
    LET b == calls[n].before
        a == calls[n].after
    IN Missing3(b) = 1 =>
         \A k \in 1..3 :
           /\ ~isnan(a[k])
           /\ ~isnan(b[k]) =>
                /\ a[k] = b[k]
                /\ Solver(calls[n].triad, Blank(a, k))[k] = b[k]

\* each of the three solvers has filled a member, and all three positions of
\* a triad have been the filled one
C2_Witness ==
  /\ pc = "solve_done"
  /\ \A i \in 0..2 : \E n \in 1..Len(calls) :
       /\ calls[n].triad = i
       /\ Missing3(calls[n].before) = 1
       /\ Missing3(calls[n].after) = 0
  /\ \A k \in 1..3 : \E n \in 1..Len(calls) :
       /\ Missing3(calls[n].before) = 1
       /\ isnan(calls[n].before[k])
       /\ ~isnan(calls[n].after[k])

\* C3: the triads of a row are solved in ascending order of their count of
\* missing members, as counted on the row solve_values is given: no triad
\* is solved before a triad with strictly fewer missing members.
C3_AscendingMissingness ==
  \A m, n \in 1..Len(calls) :
    m < n => MissingCount(input, calls[m].triad) <= MissingCount(input, calls[n].triad)

-----------------------------------------------------------------------------
(* Claims about the interpolation pipeline.  prev and tbl are the table    *)
(* before and after the stage `last`; a row keeps its index label.         *)

IsPrefix(a, b) == Len(a) <= Len(b) /\ SubSeq(b, 1, Len(a)) = a

\* the pairs <<p, q>>: row p of prev is row q of tbl
SameRow == {pq \in (DOMAIN prev) \X (DOMAIN tbl) : prev[pq[1]].index = tbl[pq[2]].index}

\* the columns holding a central value or an error bound, in both tables
ValueColumns(p, q) ==
  (DOMAIN prev[p] \cap DOMAIN tbl[q]) \ {"index", "hostname", "pl_name", "default_flag", "flag"}

AllQuantities == Groups \cup {"relincl"}

\* no call of a triad solver changes a member that was present
SolverKeepsPresent ==
  \A n \in 1..Len(calls) : \A k \in 1..3 :
    ~isnan(calls[n].before[k]) => calls[n].after[k] = calls[n].before[k]

\* the flag of every row is its flag before the stage, with codes appended
FlagsAppended ==
  \A pq \in SameRow :
    "flag" \in DOMAIN prev[pq[1]] => IsPrefix(prev[pq[1]].flag, tbl[pq[2]].flag)

\* C4 as claimed: no step of solve_values or of interp_db (thinning and the
\* interp_* stages) changes a central value or an error bound that was
\* present; every mutation fills a missing entry or appends to flag.
C4_NoPresentEntryChanged ==
  /\ SolverKeepsPresent
  /\ FlagsAppended
  /\ \A pq \in SameRow : \A c \in ValueColumns(pq[1], pq[2]) :
       ~isnan(prev[pq[1]][c]) => tbl[pq[2]][c] = prev[pq[1]][c]

\* C4 as amended: apart from the nanmedian thinning, no step changes a
\* central value that was present, nor a present error bound of a quantity
\* whose central value was present (the bounds of a quantity whose value is
\* missing are overwritten with the imputed value); the thinning never
\* makes a present entry missing; flags are only appended to.
C4_PresentKeptOutsideThinning ==
  /\ SolverKeepsPresent
  /\ FlagsAppended
  /\ \A pq \in SameRow :
       LET old == prev[pq[1]]
           new == tbl[pq[2]]
       IN IF last = "thin"
            THEN \A c \in ValueColumns(pq[1], pq[2]) : ~isnan(old[c]) => ~isnan(new[c])
            ELSE /\ new.sy_pnum = old.sy_pnum
                 /\ \A g \in AllQuantities :
                      LET c == ColsOf(g)
                      IN c[1] \in ValueColumns(pq[1], pq[2]) /\ ~isnan(old[c[1]]) =>
                           /\ new[c[1]] = old[c[1]]
                           /\ \A k \in 2..3 : ~isnan(old[c[k]]) => new[c[k]] = old[c[k]]

\* the inclination stage has run on a row that reported its inclination
\* with one error bound: the bound is kept and the other one zeroed
C4_Witness ==
  /\ last = "inclination"
  /\ \E pq \in SameRow :
       /\ ~isnan(prev[pq[1]].pl_orbincl)
       /\ ~isnan(prev[pq[1]].pl_orbinclerr1)
       /\ isnan(prev[pq[1]].pl_orbinclerr2)
       /\ tbl[pq[2]].pl_orbinclerr1 = prev[pq[1]].pl_orbinclerr1
       /\ tbl[pq[2]].pl_orbinclerr2 = Zero

\* C5: over the stages of interp_db the flag of a row never shrinks and is
\* never rewritten: after every stage it is the flag before the stage with
\* codes appended.
C5_FlagOnlyGrows == FlagsAppended

\* the last stage appended to a flag that earlier stages had appended to
C5_Witness ==
  /\ last = "trueobliq"
  /\ \E pq \in SameRow :
       /\ Len(prev[pq[1]].flag) > 1
       /\ Len(tbl[pq[2]].flag) > Len(prev[pq[1]].flag)

\* the column names of the angle a stage imputes
AngleOf(stage) == IF stage = "inclination" THEN ColsOf("incl") ELSE ColsOf("obliq")

\* the rows of prev of the host of row p that report column c
Reporters(p, c) == {o \in DOMAIN prev : prev[o].hostname = prev[p].hostname /\ ~isnan(prev[o][c])}

\* row p of tbl holds the value and the error bounds of row d of prev,
\* a missing bound replaced by 0
CopiedFrom(p, d, c) ==
  /\ tbl[p][c[1]] = prev[d][c[1]]
  /\ tbl[p][c[2]] = (IF isnan(prev[d][c[2]]) THEN Zero ELSE prev[d][c[2]])
  /\ tbl[p][c[3]] = (IF isnan(prev[d][c[3]]) THEN Zero ELSE prev[d][c[3]])

\* C6: interp_inclination and interp_trueobliq give a row that lacks the
\* angle, in a system where some planet reports it, the value and error
\* bounds (a missing bound as 0) of a planet that is the most massive among
\* the reporting ones.
C6_MostMassiveReporter ==
  last \in {"inclination", "trueobliq"} =>
    LET c == AngleOf(last)
    IN \A p \in DOMAIN prev :
         isnan(prev[p][c[1]]) /\ Reporters(p, c[1]) # {} =>
           \E d \in Reporters(p, c[1]) :
             /\ \A o \in Reporters(p, c[1]) : Val(prev[o].pl_bmasse) <= Val(prev[d].pl_bmasse)
             /\ CopiedFrom(p, d, c)

\* the heaviest planet of the system lacks the inclination, two lighter
\* planets of different masses report it, and the heaviest has received
\* the inclination of the heavier of the two
C6_Witness ==
  /\ last = "inclination"
  /\ \E p, d, o \in DOMAIN prev :
       /\ prev[p].hostname = prev[d].hostname /\ prev[p].hostname = prev[o].hostname
       /\ isnan(prev[p].pl_orbincl)
       /\ ~isnan(prev[d].pl_orbincl) /\ ~isnan(prev[o].pl_orbincl)
       /\ Val(prev[o].pl_bmasse) < Val(prev[d].pl_bmasse)
       /\ Val(prev[d].pl_bmasse) < Val(prev[p].pl_bmasse)
       /\ tbl[p].pl_orbincl = prev[d].pl_orbincl
       /\ tbl[p].pl_orbincl # prev[o].pl_orbincl

\* C7: when no planet of the system reports the angle, interp_inclination
\* sets 90 with both bounds 0 and interp_trueobliq sets the relative
\* inclination and its bounds, and the flag gains '3+-' resp. '5+-'; a row
\* that lacks the angle while a planet of its system reports it gets
\* that of a reporting planet instead.
C7_AllMissingDefault ==
  last \in {"inclination", "trueobliq"} =>
    LET c == AngleOf(last)
    IN \A p \in DOMAIN prev :
         isnan(prev[p][c[1]]) =>
           IF Reporters(p, c[1]) = {}
             THEN /\ last = "inclination" =>
                       /\ tbl[p].pl_orbincl = Num(90)
                       /\ tbl[p].pl_orbinclerr1 = Zero
                       /\ tbl[p].pl_orbinclerr2 = Zero
                       /\ tbl[p].flag = prev[p].flag \o <<"3", "+", "-">>
                  /\ last = "trueobliq" =>
                       /\ tbl[p].pl_trueobliq = prev[p].pl_relincl
                       /\ tbl[p].pl_trueobliqerr1 = prev[p].pl_relinclerr1
                       /\ tbl[p].pl_trueobliqerr2 = prev[p].pl_relinclerr2
                       /\ tbl[p].flag = prev[p].flag \o <<"5", "+", "-">>
             ELSE \E d \in Reporters(p, c[1]) : CopiedFrom(p, d, c)

\* no planet of a system of several planets reported the obliquity, and a
\* planet inclined to the heaviest one has received its relative inclination
C7_Witness ==
  /\ last = "trueobliq"
  /\ \E p \in DOMAIN prev :
       /\ Reporters(p, "pl_trueobliq") = {}
       /\ Val(prev[p].pl_relincl) # 0
       /\ Val(prev[p].pl_relinclerr1) # 0
       /\ tbl[p].pl_trueobliq = prev[p].pl_relincl
       /\ tbl[p].pl_trueobliqerr1 = prev[p].pl_relinclerr1

\* C8: when interp_db has completed, every row it retains, its planet
\* count known, has mass, semi-major axis, eccentricity, inclination,
\* relative inclination and obliquity, and both error bounds of each.
C8_FullyPopulated ==
  pc = "interp_done" =>
    \A p \in DOMAIN tbl :
      ~isnan(tbl[p].sy_pnum) =>
        \A g \in {"mass", "sma", "ecc", "incl", "relincl", "obliq"} :
          \A k \in 1..3 : ~isnan(tbl[p][ColsOf(g)[k]])

\* interp_db has completed on a system that reported nothing but radii and
\* semi-major axes: every stage has imputed
C8_Witness ==
  /\ pc = "interp_done"
  /\ Len(tbl) > 1
  /\ \E p \in DOMAIN tbl :
       tbl[p].flag = <<"0", "1", "+", "-", "2", "+", "-", "3", "+", "-",
                       "4", "+", "4", "-", "5", "+", "-">>

-----------------------------------------------------------------------------
(* Claims about the Monte Carlo engine *)

\* a draw on the admissible side of every bound
Admissible(mass, ecc, angle, sma) ==
  /\ mass > 0
  /\ ecc >= 0 /\ ecc < 10
  /\ angle >= 0 /\ angle < 180
  /\ sma > 0

\* the mask of solve_amd_mc keeps exactly the admissible draws
AmdMcMaskExact ==
  pc = "amd_mc_masked" =>
    \A k \in 1..args.Npt :
      samples.mask[k] <=> Admissible(samples.mass_mc[k], samples.eccen_mc[k],
                                     samples.di_mc[k], samples.sma_mc[k])

\* good_idx of compute_namd_mcmc keeps exactly the admissible draws
NamdMcmcMaskExact ==
  pc = "compute_namd_mcmc" /\ idx >= 1 =>
    \A p \in 1..Len(samples.planets) : \A k \in 1..args.Npt :
      LET P == samples.planets[p]
      IN P.good_idx[k] <=> Admissible(P.pl_bmasse[k], P.pl_orbeccen[k],
                                      P.pl_relincl[k], P.pl_orbsmax[k])

\* C9: in the Monte Carlo engine, solve_amd_mc and compute_namd_mcmc alike,
\* a draw is masked exactly when mass <= 0, or eccentricity < 0 or >= 1, or
\* the angle < 0 or >= 180, or semi-major axis <= 0: admissible draws are
\* kept, and no boundary value or negative angle is kept.
C9_MaskedExactlyWhenInadmissible == AmdMcMaskExact /\ NamdMcmcMaskExact

\* the sample indices are in the state combined by compute_namd_mcmc
NamdMcmcCombined ==
  pc = "namd_mcmc_combined" \/ (pc = "mc_done" /\ args.fn = "compute_namd_mcmc")

\* the sample index k is a row of the combined samples
Contributes(k) == \E j \in 1..Len(samples.index) : samples.index[j] = k

\* C10: in compute_namd_mcmc a sample index contributes to the NAMD
\* distribution if and only if good_idx holds at that index for every planet
\* of the system, and the NAMD of each contributing index is the sum over all
\* planets of the AMD at that index divided by the sum over all planets of
\* mass * sqrt(sma) at that index.
C10_ContributesIffValidForAll ==
  NamdMcmcCombined =>
    LET P == samples.planets
    IN /\ Len(P) = Len(user_df)
       /\ \A k \in 1..args.Npt :
            Contributes(k) <=> \A p \in 1..Len(P) : P[p].good_idx[k]
       /\ \A i \in 1..Len(samples.index), j \in 1..Len(samples.index) :
            i < j => samples.index[i] < samples.index[j]
       /\ \A j \in 1..Len(samples.index) :
            LET k == samples.index[j]
                amd1 == compute_amd(P[1].pl_bmasse[k], P[1].pl_orbeccen[k],
                                    P[1].pl_relincl[k], P[1].pl_orbsmax[k])
                amd2 == compute_amd(P[2].pl_bmasse[k], P[2].pl_orbeccen[k],
                                    P[2].pl_relincl[k], P[2].pl_orbsmax[k])
                den == P[1].pl_bmasse[k] * Sqrt(P[1].pl_orbsmax[k])[1]
                       + P[2].pl_bmasse[k] * Sqrt(P[2].pl_orbsmax[k])[1]
            IN /\ samples.namd_num[j] = FAdd(amd1, amd2)
               /\ samples.namd_den[j] = <<den, 1>>
               /\ den # 0 =>
                    /\ ~isnan(samples.namd[j])
                    /\ samples.namd[j][1] * FAdd(amd1, amd2)[2] * den
                         = FAdd(amd1, amd2)[1] * samples.namd[j][2]

\* the samples are combined, one index contributing with a NAMD above zero
\* and another excluded though the draw of one of the two planets is valid
C10_Witness ==
  /\ NamdMcmcCombined
  /\ \E j \in 1..Len(samples.index) :
       ~isnan(samples.namd[j]) /\ samples.namd[j][1] > 0
  /\ \E k \in 1..args.Npt :
       /\ ~Contributes(k)
       /\ \E p \in 1..2, q \in 1..2 :
            samples.planets[p].good_idx[k] /\ ~samples.planets[q].good_idx[k]

\* three quantiles that are numbers
Numeric(q) == ~isnan(q.q16) /\ ~isnan(q.q50) /\ ~isnan(q.q84)

\* NaN quantiles below the threshold, numeric and ordered quantiles from it on
Gated(n, threshold, q) ==
  IF n < threshold
    THEN isnan(q.q16) /\ isnan(q.q50) /\ isnan(q.q84)
    ELSE Numeric(q) /\ FLeq(q.q16, q.q50) /\ FLeq(q.q50, q.q84)

\* solve_amd_mc has returned from its quantile mode after drawing
AmdMcReturned ==
  pc = "mc_done" /\ args.fn = "solve_amd_mc" /\ ~args.namd /\ samples # <<>>

NamdMcmcReturned == pc = "mc_done" /\ args.fn = "compute_namd_mcmc"

\* the count of the samples of solve_amd_mc that the mask keeps
AmdMcSurvivors == Cardinality({k \in 1..args.Npt : samples.mask[k]})

\* the count of the samples of compute_namd_mcmc good for every planet
NamdMcmcSurvivors ==
  Cardinality({k \in 1..args.Npt :
                 \A p \in 1..Len(samples.planets) : samples.planets[p].good_idx[k]})

\* the quantiles of solve_amd_mc are gated by its threshold
AmdMcGated == AmdMcReturned => Gated(AmdMcSurvivors, args.threshold, out)

\* the quantiles of compute_namd_mcmc are gated by Npt // 20
NamdMcmcGated == NamdMcmcReturned => Gated(NamdMcmcSurvivors, args.Npt \div 20, out)

\* the same, for the calls where a sample survives with a NAMD that is a number
NamdMcmcGatedWhenDefined ==
  /\ NamdMcmcReturned
  /\ \E j \in 1..Len(samples.namd) : ~isnan(samples.namd[j])
  => Gated(NamdMcmcSurvivors, args.Npt \div 20, out)

\* C11: in solve_amd_mc and compute_namd_mcmc alike, with fewer surviving
\* samples than the threshold all three quantiles are NaN, and with as many
\* or more the three quantiles are numbers with q16 <= q50 <= q84.
C11_NaNBelowThresholdElseOrdered == AmdMcGated /\ NamdMcmcGated

\* the values at ranks 16%, 50% and 84% of the sorted values a
Ranks(a) ==
  [q16 |-> Quantile(a, 16, 100), q50 |-> Quantile(a, 50, 100), q84 |-> Quantile(a, 84, 100)]

\* the AMD of the samples of solve_amd_mc that the mask keeps
AmdMcSurviving ==
  LET ks == SelectSeq([k \in 1..args.Npt |-> k], LAMBDA k : samples.mask[k])
  IN [j \in 1..Len(ks) |->
        compute_amd(samples.mass_mc[ks[j]], samples.eccen_mc[ks[j]],
                    samples.di_mc[ks[j]], samples.sma_mc[ks[j]])]

\* with enough samples, solve_amd_mc reports the 16th, 50th and 84th percentile
AmdMcPercentiles ==
  AmdMcReturned /\ AmdMcSurvivors >= args.threshold =>
    LET r == Ranks(AmdMcSurviving)
    IN out.q16 = r.q16 /\ out.q50 = r.q50 /\ out.q84 = r.q84

\* with enough samples, compute_namd_mcmc reports the 16th, 50th and 84th
\* percentile of the NAMD of the surviving samples that is a number
NamdMcmcPercentiles ==
  NamdMcmcReturned /\ NamdMcmcSurvivors >= args.Npt \div 20 =>
    LET r == Ranks(SelectSeq(samples.namd, LAMBDA x : ~isnan(x)))
    IN out.q16 = r.q16 /\ out.q50 = r.q50 /\ out.q84 = r.q84

\* C12: when enough samples survive, the q16, q50 and q84 that solve_amd_mc
\* and compute_namd_mcmc report are the values at ranks 16%, 50% and 84% of
\* the sorted surviving samples.
C12_QuantilesArePercentiles == AmdMcPercentiles /\ NamdMcmcPercentiles

-----------------------------------------------------------------------------
(* Claims about the stored results and the kind *)

\* solve_namd has returned for a row that had its namd_<kind> column
NamdStoredReturned ==
  pc = "point_done" /\ args.fn = "solve_namd" /\ args.kind \in DOMAIN row.namd

\* solve_amd_mc has returned in quantile mode for a row that had its
\* amd_<kind>_q16, q50 and q84 columns
AmdMcStoredReturned ==
  /\ pc = "mc_done"
  /\ args.fn = "solve_amd_mc"
  /\ ~args.namd
  /\ args.kind \in DOMAIN row.amd_q

\* the row with v as its namd_<kind> column
WithNamd(r, kind, v) ==
  [r EXCEPT !.namd = [k \in DOMAIN r.namd \cup {kind} |-> IF k = kind THEN v ELSE r.namd[k]]]

\* C13: when the target column is on the row already, solve_namd and
\* solve_amd_mc (in quantile mode) return the stored values unchanged, looking
\* nothing up in the table and drawing no sample; so solve_namd called again
\* on the row that holds its first result returns that result.
C13_StoredValueReturned ==
  /\ NamdStoredReturned =>
       out = row.namd[args.kind] /\ calls = <<>> /\ samples = <<>>
  /\ AmdMcStoredReturned =>
       out = row.amd_q[args.kind] /\ calls = <<>> /\ samples = <<>>
  /\ pc = "point_done" /\ args.fn = "solve_namd" /\ ~NamdStoredReturned =>
       /\ calls # <<>>
       /\ solve_namd(WithNamd(row, args.kind, out[1]), <<>>, args.kind) = out[1]

\* solve_namd has returned the stored NAMD of a row whose host has another
\* NAMD than the stored one
C13_Witness ==
  /\ NamdStoredReturned
  /\ out = row.namd[args.kind]
  /\ NamdOfHost(row, tbl, args.kind) # <<out>>

-----------------------------------------------------------------------------
(* Claims about the duplicate rows *)

\* fewer identities (hostname, pl_name) than rows
SharedIdentity(df) ==
  Cardinality({<<df[p].hostname, df[p].pl_name>> : p \in DOMAIN df}) < Len(df)

\* C14: when two of the rows kept for interpolation share their hostname and
\* planet name, interp_db raises and stops: the table is left as it is, with
\* both rows and without a flag, and no stage runs after the error.
C14_DuplicatesRaiseAndStop ==
  [][/\ pc = "duplicates" /\ SharedIdentity(tbl) =>
          /\ pc' = "raised"
          /\ tbl' = tbl
          /\ \A p \in DOMAIN tbl' : "flag" \notin DOMAIN tbl'[p]
     /\ pc # "raised"]_vars

\* interp_db has raised on a table where two rows share their identity
C14_Witness == pc = "raised" /\ last = "thin" /\ SharedIdentity(tbl)

\* a call of solve_amd, solve_namd or solve_amd_mc with a kind that is
\* neither 'rel' nor 'abs'
OtherKind ==
  /\ args # <<>>
  /\ args.fn \in {"solve_amd", "solve_namd", "solve_amd_mc"}
  /\ args.kind \notin Kinds

\* solve_amd and solve_namd raise on another kind before computing
PointKindRaises ==
  OtherKind /\ args.fn # "solve_amd_mc" =>
    pc \in {args.fn, "raised"} /\ out = <<>> /\ calls = <<>> /\ samples = <<>>

\* C15: solve_amd, solve_namd and solve_amd_mc called with a kind other than
\* 'rel' or 'abs' raise at once: nothing is returned, no AMD or NAMD is
\* computed and no random sample is drawn before the error.
C15_OtherKindRaisesFirst ==
  OtherKind =>
    pc \in {args.fn, "raised"} /\ out = <<>> /\ calls = <<>> /\ samples = <<>>

\* the hostnames of the table df
Hosts(df) == {df[p].hostname : p \in DOMAIN df}

\* df without the rows of the hosts other than h
OwnRows(df, h) == SelectSeq(df, LAMBDA r : r.hostname = h)

\* df with the columns of over written on the rows of the hosts other than h
Overwritten(df, h, over) ==
  [p \in DOMAIN df |->
     IF df[p].hostname = h THEN df[p]
     ELSE [col \in DOMAIN df[p] |->
             IF col \in DOMAIN over THEN over[col] ELSE df[p][col]]]

\* df after a copy of its first row of h, given to the host Z with the
\* columns of over
Preceded(df, h, over) ==
  LET own == OwnRows(df, h)[1]
  IN <<[col \in DOMAIN own |->
          IF col = "hostname" THEN "Z"
          ELSE IF col \in DOMAIN over THEN over[col] ELSE own[col]]>> \o df

\* what the other hosts of a catalog table are given: the largest mass, and
\* an inclination and an obliquity of their own, with or without errors
InterpOthers ==
  {[pl_bmasse |-> Num(1000), pl_orbincl |-> Num(45), pl_orbinclerr1 |-> e,
    pl_orbinclerr2 |-> e, pl_trueobliq |-> Num(33), pl_trueobliqerr1 |-> e,
    pl_trueobliqerr2 |-> e] : e \in {NaN, Num(7)}}
    \cup {[pl_bmasse |-> Num(1), pl_orbincl |-> NaN, pl_trueobliq |-> NaN]}

\* what the other hosts of a table with AMD columns are given
PointOthers ==
  {[pl_bmasse |-> m, pl_orbsmax |-> 9, amd |-> [kind \in Kinds |-> Frac(a, 1)]] :
     m \in {0, 50}, a \in {0, 7}}

\* tables that agree with df on the rows of h and differ in the other rows:
\* none, other values, one row more
Variants(df, h, others) ==
  {OwnRows(df, h)}
    \cup {Overwritten(df, h, over) : over \in others}
    \cup {Preceded(df, h, over) : over \in others}

\* the rows of the host h after the stage name of interp_db ran on df
StageRows(name, df, h) ==
  LET own == OwnRows(df, h)
  IN [k \in DOMAIN own |->
        IF name = "inclination"
          THEN SetCols(own[k], ColsOf("incl") \o <<"flag">>, interp_inclination(own[k], df))
        ELSE IF name = "relincl"
          THEN SetCols(own[k], ColsOf("relincl"), solve_relincl(own[k], df))
        ELSE SetCols(own[k], ColsOf("obliq") \o <<"flag">>, interp_trueobliq(own[k], df))]

HostStages == {"inclination", "relincl", "trueobliq"}

\* the rows a host has after a stage are those the stage gives it on every
\* table that agrees on the host's rows
StageOwnRowsOnly ==
  last \in HostStages =>
    \A h \in Hosts(prev) :
      \A v \in Variants(prev, h, InterpOthers) :
        OwnRows(tbl, h) = StageRows(last, v, h)

\* the NAMD returned for a row is the one returned on every table that
\* agrees on the rows of its host
NamdOwnRowsOnly ==
  pc = "point_done" /\ args.fn = "solve_namd" =>
    \A v \in Variants(tbl, row.hostname, PointOthers) :
      out = solve_namd(row, v, args.kind)

\* C16: what interp_inclination, interp_trueobliq, solve_relincl and
\* solve_namd compute for the rows of a host depends on the rows of that host
\* only: on two tables that agree on the host's rows and differ in the rows
\* of other hosts, the results for the host's rows are the same.
C16_OwnRowsOnly == StageOwnRowsOnly /\ NamdOwnRowsOnly

\* a table of two hosts where a planet took its inclination from the most
\* massive planet of its host, or a NAMD was computed over the host's rows
C16_Witness ==
  \/ /\ last = "inclination"
     /\ Cardinality(Hosts(prev)) = 2
     /\ \E p \in DOMAIN prev :
          /\ isnan(prev[p].pl_orbincl)
          /\ tbl[p].pl_orbincl \notin {NaN, Num(90)}
  \/ /\ pc = "point_done"
     /\ args.fn = "solve_namd"
     /\ calls # <<>>
     /\ Cardinality(Hosts(tbl)) = 2

\* the eccentricities of [0, 1) whose AMD the model computes exactly, in
\* tenths
Eccentricities == {0, 6, 8}

\* solve_amd returned compute_amd of the row at the angle di
AmdReturned(di) ==
  /\ pc = "point_done"
  /\ args.fn = "solve_amd"
  /\ Di(row, args.kind).v = di
  /\ row.pl_bmasse > 0
  /\ row.pl_orbsmax > 0
  /\ row.pl_orbeccen \in Eccentricities

\* the AMD returned is at most the AMD of the same planet at every larger
\* eccentricity
AmdNotAbove(di) ==
  \A e2 \in Eccentricities :
    row.pl_orbeccen <= e2 =>
      FLeq(out[1], compute_amd(row.pl_bmasse, e2, di, row.pl_orbsmax))

\* C17 as stated: for positive mass and semi-major axis and an inclination in
\* [0, 180) degrees, compute_amd does not decrease when the eccentricity
\* grows within [0, 1).
C17_MonotoneBelow180 ==
  \A di \in 0..179 : AmdReturned(di) => AmdNotAbove(di)

\* C17, amended: for positive mass and semi-major axis and an inclination in
\* [0, 90] degrees, compute_amd does not decrease when the eccentricity
\* grows within [0, 1).
C17_MonotoneUpTo90 ==
  \A di \in 0..90 : AmdReturned(di) => AmdNotAbove(di)

\* the AMD of a planet inclined by 60 degrees, which a larger eccentricity
\* raises
C17_Witness ==
  /\ AmdReturned(60)
  /\ \E e2 \in Eccentricities :
       /\ row.pl_orbeccen < e2
       /\ out[1] # compute_amd(row.pl_bmasse, e2, 60, row.pl_orbsmax)
       /\ AmdNotAbove(60)

\* row p had no eccentricity: it has the prior of its planet count, errors
\* of 0 and one stage-1 code more
EccImputed(p) ==
  /\ tbl[p].pl_orbeccen = EccPrior(prev[p].sy_pnum)
  /\ tbl[p].pl_orbeccenerr1 = Zero
  /\ tbl[p].pl_orbeccenerr2 = Zero
  /\ tbl[p].flag = prev[p].flag \o <<"1", "+", "-">>

\* row p had an eccentricity: it is kept, each missing error is 0 and has
\* its code, each reported error is kept and has none
EccErrorsZeroed(p) ==
  LET no1 == isnan(prev[p].pl_orbeccenerr1)
      no2 == isnan(prev[p].pl_orbeccenerr2)
  IN /\ tbl[p].pl_orbeccen = prev[p].pl_orbeccen
     /\ tbl[p].pl_orbeccenerr1 = IF no1 THEN Zero ELSE prev[p].pl_orbeccenerr1
     /\ tbl[p].pl_orbeccenerr2 = IF no2 THEN Zero ELSE prev[p].pl_orbeccenerr2
     /\ tbl[p].flag = prev[p].flag \o (IF no1 THEN <<"1", "+">> ELSE <<>>)
                                   \o (IF no2 THEN <<"1", "-">> ELSE <<>>)

\* C18: interp_eccentricity gives every row without eccentricity the prior
\* 0.63 * N^(-1.02) of its planet count N and appends a stage-1 code to its
\* flag; on every row an eccentricity error still missing becomes 0 whatever
\* the other side is, and '1+' or '1-' is appended for the sides zeroed and
\* for no other.
C18_EccentricityPriorAndErrors ==
  last = "eccentricity" =>
    /\ Len(tbl) = Len(prev)
    /\ \A p \in DOMAIN prev :
         IF isnan(prev[p].pl_orbeccen) THEN EccImputed(p) ELSE EccErrorsZeroed(p)

\* one row took the prior while another, with its eccentricity reported, had
\* one error zeroed and the other kept
C18_Witness ==
  /\ last = "eccentricity"
  /\ \E p \in DOMAIN prev :
       /\ isnan(prev[p].pl_orbeccen)
       /\ ~isnan(tbl[p].pl_orbeccen)
  /\ \E p \in DOMAIN prev :
       /\ ~isnan(prev[p].pl_orbeccen)
       /\ isnan(prev[p].pl_orbeccenerr1)
       /\ ~isnan(prev[p].pl_orbeccenerr2)
       /\ tbl[p].pl_orbeccenerr2 # Zero

\* the second of two calls of fn with the same arguments has returned
Reinvoked(fn) ==
  /\ pc = "mc_done"
  /\ args.fn = fn
  /\ Len(calls) = 1

\* the second call took its samples in the order the first did, and returned
\* what the first returned
Reproduced ==
  /\ rng.log = calls[1].log
  /\ out = calls[1].out

\* two calls of compute_namd_mcmc with the same seed agree
NamdMcmcReproducible == Reinvoked("compute_namd_mcmc") => Reproduced

\* two calls of solve_amd_mc on the same row agree
AmdMcReproducible == Reinvoked("solve_amd_mc") => Reproduced

\* C19: two invocations of the Monte Carlo engine on the same rows with the
\* same seed take their samples from the generator in the same order of
\* planets and parameters and return the same quantiles, whatever was drawn
\* before the invocation.
C19_SameSeedSameQuantiles == NamdMcmcReproducible /\ AmdMcReproducible

\* no triad of the row has exactly one missing member
Fixpoint(r) == \A i \in 0..2 : MissingCount(r, i) # 1

\* C20: solve_values reaches a fixpoint in its single pass: whatever members
\* of (sma, ars, rstar, rplanet, rprs, period, mstar) are missing on the row
\* it is given, no triad of the row it returns has exactly one missing
\* member.
C20_SinglePassFixpoint == pc = "solve_done" => Fixpoint(row)

\* the flag records an imputation of stage 1 to 4
EarlyStage(flag) == \E k \in 1..Len(flag) : flag[k] \in {"1", "2", "3", "4"}

\* the host h of prev has a row in tbl
KeptHost(h) == \E p \in DOMAIN tbl : tbl[p].hostname = h

\* the filter keeps the hosts whose flags are all in the list of line 295,
\* and keeps all their rows
CoreKeepsListed ==
  last = "core" =>
    \A h \in Hosts(prev) :
      /\ KeptHost(h) <=> \A p \in HostRows(prev, h) : prev[p].flag \in core_flags
      /\ KeptHost(h) => OwnRows(tbl, h) = OwnRows(prev, h)

\* C21: the core filter of calc_namd keeps a system if and only if no flag
\* of its planets records an imputation of stage 1 to 4; a flag made of
\* stage-5 codes only, as that of a planet with a reported obliquity and both
\* of its errors zeroed, is accepted.
C21_CoreIffNoEarlyStage ==
  last = "core" =>
    \A h \in Hosts(prev) :
      KeptHost(h) <=> \A p \in HostRows(prev, h) : ~EarlyStage(prev[p].flag)

=============================================================================
